---- MODULE Spec2Model ----
(***************************************************************************)
(* A model of the dispatch layer of jax/api.py: the jit, pmap and          *)
(* xla_computation front-ends (argument-count check, static/dynamic        *)
(* partitioning, flattening, donation vector, leaf validation, dispatch),  *)
(* the disable_jit context, the differentiation front-ends, vmap and the   *)
(* mapped axis size, the C++ jit's slow path and NaN check, and the parts  *)
(* of core, linear_util, tree_util and the compilation cache they rest on. *)
(***************************************************************************)
EXTENDS Integers, Sequences, FiniteSets, TLC

\* ------------------------------------------------------------- bounds
\* The largest number of positional arguments of a call.
MaxArgs == 2
\* The largest number of front-end calls in one behaviour.
MaxCalls == 2
\* The deepest nesting of `with disable_jit():` blocks.
MaxNest == 2
\* The largest number of positional arguments where calls are repeated.
MaxCacheArgs == 1

\* ------------------------------------------------------------- values
\* Python objects a caller can pass: two Python floats (hashable, same
\* abstract value, different concrete values), an array of shape (3,)
\* (not hashable) and a function object (hashable, not a JAX type).
Objs == {"x1", "x2", "v", "fn"}

\* The differentiation front-ends are called with more kinds of values: an
\* array of shape (1,) "w", a complex scalar "z", an integer scalar "n", a
\* boolean scalar "b" and a float0 scalar "o".  The mapping front-ends are
\* also called with an array of shape (3, 1), "m".  The Jacobian front-ends
\* return an array of shape (4,), "u".

\* xla.abstractify(arg): the abstract value of a leaf, TypeError otherwise.
abstractify(o) ==
  CASE o \in {"x1", "x2"} -> "f32[]"
    [] o = "v" -> "f32[3]"
    [] o = "w" -> "f32[1]"
    [] o = "m" -> "f32[3,1]"
    [] o = "u" -> "f32[4]"
    [] o = "z" -> "c64[]"
    [] o = "n" -> "i32[]"
    [] o = "b" -> "bool[]"
    [] o = "o" -> "float0[]"
    [] OTHER -> "TypeError"

\* np.shape(x) of a leaf
Shape(o) ==
  CASE o = "v" -> <<3>>
    [] o = "w" -> <<1>>
    [] o = "m" -> <<3, 1>>
    [] o = "u" -> <<4>>
    [] OTHER -> <<>>

\* api._dtype(x): the canonical dtype of a leaf
_dtype(x) ==
  CASE x \in {"x1", "x2", "v", "w", "m", "u"} -> "float32"
    [] x = "z" -> "complex64"
    [] x = "n" -> "int32"
    [] x = "b" -> "bool"
    [] x = "o" -> "float0"
    [] OTHER -> "object"

\* dtypes.issubdtype(dtype, np.floating)
floating(dtype) == dtype = "float32"

\* dtypes.issubdtype(dtype, np.complexfloating)
complexfloating(dtype) == dtype = "complex64"

\* core.primal_dtype_to_tangent_dtype: the dtype itself for an inexact
\* primal dtype, float0 for every other
primal_dtype_to_tangent_dtype(dtype) ==
  IF floating(dtype) \/ complexfloating(dtype) THEN dtype ELSE "float0"

\* hash(obj) of a leaf object succeeds.
LeafHashable(o) == o \in {"x1", "x2", "fn"}

\* api._valid_jaxtype
_valid_jaxtype(arg) == abstractify(arg) # "TypeError"

\* isinstance(arg, core.Tracer): "tr" is the tracer of a float32 scalar, what
\* a function being traced by an enclosing jit passes on
IsTracer(arg) == arg = "tr"

\* a variant without the Tracer case
_check_arg_no_tracer(arg) == _valid_jaxtype(arg)

\* api._check_arg: TRUE when it returns, FALSE when it raises TypeError.
_check_arg(arg) == IsTracer(arg) \/ _valid_jaxtype(arg)

\* ------------------------------------------------------------- pytrees
\* A pytree argument: one leaf, or a tuple of leaves.
Leaf(o) == [node |-> "leaf", leaves |-> <<o>>]

Tuple(s) == [node |-> "tuple", leaves |-> s]

Trees == {Leaf(o) : o \in Objs} \cup {Tuple(<<"v", "v">>)}

\* tree_structure(t): the structure token of one pytree
tree_structure(t) == [node |-> t.node, num_leaves |-> Len(t.leaves)]

\* hash(static_arg) succeeds
Hashable(t) == \A i \in 1..Len(t.leaves) : LeafHashable(t.leaves[i])

RECURSIVE FlattenSeq(_)
\* the leaves of a sequence of pytrees, in order
FlattenSeq(ts) ==
  IF ts = <<>> THEN <<>> ELSE Head(ts).leaves \o FlattenSeq(Tail(ts))

\* [tree_structure(t) for t in ts]
Structures(ts) == [i \in 1..Len(ts) |-> tree_structure(ts[i])]

\* tree_flatten((dyn_args, kwargs)): the flat leaves and the structure token.
\* kwargs is the sequence of the keyword values in sorted key order.
tree_flatten(dyn_args, kwargs) ==
  [leaves |-> FlattenSeq(dyn_args) \o FlattenSeq(kwargs),
   treedef |-> [args |-> Structures(dyn_args), kwargs |-> Structures(kwargs)]]

RECURSIVE UnflattenSeq(_, _)
\* rebuild a sequence of pytrees from their structures and a flat leaf list
UnflattenSeq(structs, leaves) ==
  IF structs = <<>> THEN <<>>
  ELSE LET n == Head(structs).num_leaves
       IN <<[node |-> Head(structs).node, leaves |-> SubSeq(leaves, 1, n)]>>
          \o UnflattenSeq(Tail(structs), SubSeq(leaves, n + 1, Len(leaves)))

RECURSIVE NumLeaves(_)
NumLeaves(structs) ==
  IF structs = <<>> THEN 0 ELSE Head(structs).num_leaves + NumLeaves(Tail(structs))

\* a variant that refuses too few leaves only, and drops the leaves in excess
tree_unflatten_too_few_only(treedef, leaves) ==
  LET na == NumLeaves(treedef.args)
      n == na + NumLeaves(treedef.kwargs)
  IN IF Len(leaves) < n
     THEN [exc |-> "ValueError", args |-> <<>>, kwargs |-> <<>>]
     ELSE [exc |-> "none",
           args |-> UnflattenSeq(treedef.args, SubSeq(leaves, 1, na)),
           kwargs |-> UnflattenSeq(treedef.kwargs, SubSeq(leaves, na + 1, n))]

\* tree_unflatten(in_tree, args_flat) -> (dyn_args, kwargs); ValueError when
\* the number of leaves is not the treedef's
tree_unflatten(treedef, leaves) ==
  LET na == NumLeaves(treedef.args)
      n == na + NumLeaves(treedef.kwargs)
  IN IF Len(leaves) # n
     THEN [exc |-> "ValueError", args |-> <<>>, kwargs |-> <<>>]
     ELSE [exc |-> "none",
           args |-> UnflattenSeq(treedef.args, SubSeq(leaves, 1, na)),
           kwargs |-> UnflattenSeq(treedef.kwargs, SubSeq(leaves, na + 1, n))]

\* tree_flatten(tree_unflatten(treedef, leaves)): the record of the round trip
unflatten_flatten_call(treedef, leaves) ==
  LET un == tree_unflatten(treedef, leaves)
  IN [op |-> "tree_unflatten", treedef |-> treedef, leaves |-> leaves,
      status |-> IF un.exc = "none" THEN "returned" ELSE "raised",
      exc |-> un.exc, flat |-> tree_flatten(un.args, un.kwargs)]

\* ------------------------------------------------------------- inputs
\* The positional argument lists and keyword dictionaries of a call.
ArgLists == UNION {[1..n -> Trees] : n \in 0..MaxArgs}

KwArgs == {<<>>, <<Leaf("v")>>}

\* The largest number of traces entered in one behaviour.
MaxPushes == 5

\* The largest number of transform pairs stacked on one wrapped function.
MaxTransforms == 5

\* The number of threads that call a compiled function at the same time.
MaxThreads == 2

\* The largest number of leaves handed to tree_unflatten.
MaxLeaves == 4

\* Argument positions a wrapper may declare static or donated.
Positions == 0..(MaxArgs - 1)

\* ------------------------------------------------------------- api_util
\* max(xs, default=d)
Max(S, d) == IF S = {} THEN d ELSE CHOOSE m \in S : \A s \in S : s <= m

\* the number of elements of S below i
Rank(S, i) == Cardinality({s \in S : s < i})

\* the k-th smallest element of S (k from 1)
Nth(S, k) == CHOOSE s \in S : Rank(S, s) = k - 1

\* tuple(args[i] for i in sorted(S))
Pick(args, S) == [k \in 1..Cardinality(S) |-> args[Nth(S, k) + 1]]

\* api_util.rebase_donate_argnums: shifts donate to account for static
\* (it raises when the two intersect, so wrappers exist only for disjoint sets).
rebase_donate_argnums(donate, static) ==
  {d - Rank(static, d) : d \in donate}

\* The outcome of partitioning: the exception raised if any, the positions of
\* the dynamic arguments and the fixed arguments (the parameters of the
\* transform put on f), and the dynamic arguments.
Partition(exc, dyn_argnums, fixed_args, dyn_args) ==
  [exc |-> exc, dyn_argnums |-> dyn_argnums, fixed_args |-> fixed_args,
   dyn_args |-> dyn_args]

\* no static argument: f is left as it is and every argument is dynamic
NoPartition(args) == Partition("none", 0..(Len(args) - 1), <<>>, args)

\* api_util.argnums_partial_except(f, static_argnums, args, allow_invalid=False):
\* the static arguments are fixed into f (they must be hashable), the others
\* are the dynamic arguments.
argnums_partial_except(static, args) ==
  LET dyn_argnums == {i \in 0..(Len(args) - 1) : i \notin static}
  IN IF \E s \in static : s >= Len(args)
     THEN Partition("IndexError", {}, <<>>, <<>>)
     ELSE IF \E s \in static : ~Hashable(args[s + 1])
     THEN Partition("ValueError", {}, <<>>, <<>>)
     ELSE Partition("none", dyn_argnums, Pick(args, static), Pick(args, dyn_argnums))

\* api_util.argnums_partial(f, dyn_argnums, args): as above, without the
\* hashability requirement; args[i] of a missing position is an IndexError.
argnums_partial(dyn_argnums, args) ==
  IF \E i \in dyn_argnums : i >= Len(args)
  THEN Partition("IndexError", {}, <<>>, <<>>)
  ELSE Partition("none", dyn_argnums,
                 Pick(args, {i \in 0..(Len(args) - 1) : i \notin dyn_argnums}),
                 Pick(args, dyn_argnums))

RECURSIVE donation_vector_args(_, _, _)
\* the loop of donation_vector over enumerate(args), from index i
donation_vector_args(donate, dyn_args, i) ==
  IF i >= Len(dyn_args) THEN <<>>
  ELSE [k \in 1..Len(dyn_args[i + 1].leaves) |-> (i \in donate)]
       \o donation_vector_args(donate, dyn_args, i + 1)

\* api_util.donation_vector(donate_argnums, args, kwargs): every leaf of a
\* donated positional argument True, every other leaf (keyword leaves too) False.
donation_vector(donate, dyn_args, kwargs) ==
  donation_vector_args(donate, dyn_args, 0)
    \o [k \in 1..Len(FlattenSeq(kwargs)) |-> FALSE]

\* api_util._argnums_partial(dyn_argnums, fixed_args, *dyn_args): the
\* arguments f is called with, the dynamic ones at dyn_argnums and the fixed
\* ones, in order, at the other positions
_argnums_partial(dyn_argnums, fixed, dyn) ==
  [k \in 1..(Len(fixed) + Len(dyn)) |->
     IF (k - 1) \in dyn_argnums THEN dyn[Rank(dyn_argnums, k - 1) + 1]
     ELSE fixed[(k - 1) - Rank(dyn_argnums, k - 1) + 1]]

\* ------------------------------------------------------------- state
VARIABLES
  static_argnums,     \* the wrapper's static_argnums
  declared_donate,    \* donate_argnums as the caller declared them
  donate_argnums,     \* the wrapper's donate_argnums (rebased)
  jax_disable_jit,    \* config.jax_disable_jit
  disable_stack,      \* the values saved by the open disable_jit contexts
  closure,            \* a value fun reads from its enclosing scope
  cache,              \* the compilation cache behind xla_call: key -> entry
  compile_log,        \* the calls during which the backend compiler ran
  ncalls,             \* calls made so far
  last,               \* the most recent call: its inputs and how it ended
  argnums,            \* value_and_grad/grad/jacrev: the wrapper's argnums
  has_aux,            \* value_and_grad/grad: the wrapper's has_aux
  holomorphic,        \* value_and_grad/grad/jacrev: the wrapper's holomorphic
  allow_int,          \* value_and_grad/grad/jacrev: the wrapper's allow_int
  vmap_in_axes,       \* vmap: the wrapper's in_axes
  executor,           \* the kind of executable xla._xla_callable builds for fun
  device_array_outputs, \* every flat output of fun is a plain device array
  jax_debug_nans,     \* config.jax_debug_nans
  jax_debug_infs,     \* config.jax_debug_infs
  xla_extension_version, \* lib._xla_extension_version
  out_avals,          \* the abstract values of fun's flat outputs
  trace_stack,        \* core: the stack of the traces in progress
  frames,             \* the transformation calls in progress, outermost first
  npush,              \* the number of traces pushed so far
  transforms,         \* linear_util: the transform pairs attached to the wrapped function
  events,             \* what one call of the wrapped function has run so far
  threads,            \* the threads calling a compiled function, and where each one is
  cache_entries,      \* the entries of the compilation cache the threads share
  previous,           \* the differentiation call made before the most recent one
  fastpath_data,     \* jax_jit.jit: the fast-path data kept per call signature
  out_axes,          \* pmap: the wrapper's out_axes
  experimental_cpp_jit, \* FLAGS.experimental_cpp_jit
  device,             \* jit: the device argument
  backend,            \* jit: the backend argument
  fun_kind,           \* jit: what kind of object fun is
  wrapper,           \* jit: the wrapper built, or the exception raised
  tl_debug_nans,      \* config_thread_local_state.jax_debug_nans, per thread (unset reads as False)
  tl_debug_infs,      \* config_thread_local_state.jax_debug_infs, per thread
  global_post_hook,   \* jax_jit.global_state().post_hook
  thread_local_post_hook, \* jax_jit.thread_local_state().post_hook, per thread
  axis_env,           \* core: the thread's axis environment, oldest frame first
  makers,             \* the calls of jaxpr_maker / computation_maker in progress, outermost first
  finished,          \* the call of jaxpr_maker / computation_maker that ended last
  flat_call,          \* the front-end call in progress: its position and its out_tree store
  lu_cache,           \* what xla_call / xla_pmap keep per key: the stores of the traced function
  nflat              \* how many such calls were started

vars == <<static_argnums, declared_donate, donate_argnums, jax_disable_jit,
          disable_stack, closure, cache, compile_log, ncalls, last,
          argnums, has_aux, holomorphic, allow_int,
          vmap_in_axes,
          executor,
          device_array_outputs,
          jax_debug_nans,
          jax_debug_infs,
          xla_extension_version,
          out_avals,
          trace_stack,
          frames,
          npush,
          transforms, events, threads, cache_entries,
          previous,
          fastpath_data,
          out_axes,
          experimental_cpp_jit, device, backend, fun_kind, wrapper,
          tl_debug_nans, tl_debug_infs, global_post_hook, thread_local_post_hook,
          axis_env, makers, finished,
          flat_call, lu_cache, nflat>>

\* what a wrapper is built with, and the configuration
config_vars == <<static_argnums, declared_donate, donate_argnums, argnums,
                  has_aux, holomorphic, allow_int, vmap_in_axes, executor,
                  device_array_outputs, jax_debug_nans, jax_debug_infs,
                  xla_extension_version, out_avals>>

trace_vars == <<trace_stack, frames, npush>>

pairing_vars == <<transforms, events>>

thread_vars == <<threads, cache_entries>>

\* the state of the C++ dispatcher
dispatcher_vars == <<fastpath_data>>

\* what a pmap wrapper is built with
pmap_vars == <<out_axes>>

\* what jit is called with, and what it gave
wrap_vars == <<experimental_cpp_jit, device, backend, fun_kind, wrapper>>

\* the thread-local debug flags and the post hooks of the C++ jit
debug_vars == <<tl_debug_nans, tl_debug_infs, global_post_hook, thread_local_post_hook>>

\* core's axis environment and the calls that extend it
axis_vars == <<axis_env, makers, finished>>

\* the output-structure store of the call in progress, and the caches that keep it
store_vars == <<flat_call, lu_cache, nflat>>

\* what the calls of the front-ends read and change
process_vars == <<jax_disable_jit, disable_stack, closure, cache, compile_log, ncalls>>

\* what the differentiation front-ends are compared on
history_vars == <<previous>>

\* what no call of any front-end changes
settled_vars == <<config_vars, trace_vars, pairing_vars, thread_vars, dispatcher_vars, pmap_vars, wrap_vars, debug_vars, axis_vars, store_vars>>

\* every group of variables but dispatcher_vars
except_dispatcher_vars ==
  <<config_vars, trace_vars, pairing_vars, thread_vars, history_vars, pmap_vars, wrap_vars, debug_vars, axis_vars, store_vars>>

\* every group of variables but pmap_vars
except_pmap_vars ==
  <<config_vars, trace_vars, pairing_vars, thread_vars, dispatcher_vars, history_vars, wrap_vars, debug_vars, axis_vars, store_vars>>

\* every group of variables but wrap_vars
except_wrap_vars ==
  <<config_vars, trace_vars, pairing_vars, thread_vars, dispatcher_vars, pmap_vars, history_vars, debug_vars, axis_vars, store_vars>>

\* every group of variables but debug_vars
except_debug_vars ==
  <<config_vars, trace_vars, pairing_vars, thread_vars, dispatcher_vars, pmap_vars, wrap_vars, history_vars, axis_vars, store_vars>>

\* every group of variables but debug_vars and config_vars
except_debug_vars_but_config ==
  <<trace_vars, pairing_vars, thread_vars, dispatcher_vars, pmap_vars, wrap_vars, history_vars, axis_vars, store_vars>>

\* every group of variables but axis_vars
except_axis_vars ==
  <<config_vars, trace_vars, pairing_vars, thread_vars, dispatcher_vars, pmap_vars, wrap_vars, debug_vars, history_vars, store_vars>>

\* every group of variables but store_vars
except_store_vars ==
  <<config_vars, trace_vars, pairing_vars, thread_vars, dispatcher_vars, pmap_vars, wrap_vars, debug_vars, axis_vars, history_vars>>

\* the groups that the traces, the transforms and the threads leave alone
later_vars ==
  <<history_vars, dispatcher_vars, pmap_vars, wrap_vars, debug_vars, axis_vars, store_vars>>

\* what no call of a front-end changes
wrapper_vars == <<settled_vars, history_vars>>

\* the value of fun(*args, **kwargs) evaluated with the closure value c
FunResult(args, kwargs, c) ==
  [kind |-> "value", args |-> args, kwargs |-> kwargs, closure |-> c]

\* no value: the call raised
NoResult == [kind |-> "none", args |-> <<>>, kwargs |-> <<>>, closure |-> 0]

\* the computation xla_computation builds for the call
Built(args, kwargs, c) ==
  [kind |-> "computation", args |-> args, kwargs |-> kwargs, closure |-> c]

NoCall == [op |-> "none"]

\* ------------------------------------------------------------- xla_call
\* The cache key of xla.xla_call(flat_fun, *args_flat, device=, backend=,
\* name=, donated_invars=): the function with its transforms (fixed static
\* arguments, in_tree), the abstract values of the flat arguments and the
\* parameters.
xla_call_key(dyn_argnums, fixed_args, in_tree, args_flat, donated_invars) ==
  [dyn_argnums |-> dyn_argnums, fixed_args |-> fixed_args, in_tree |-> in_tree,
   avals |-> [i \in 1..Len(args_flat) |->
                IF IsTracer(args_flat[i]) THEN "f32[]" ELSE abstractify(args_flat[i])],
   donated_invars |-> donated_invars, device |-> "None", backend |-> "None"]

\* The cache after xla_call: a miss traces fun now (reading the current
\* closure) and installs the compiled executable.
xla_call_cache(key) ==
  IF key \in DOMAIN cache THEN cache ELSE cache @@ (key :> [closure |-> closure])

\* The flat output of xla_call: the executable for key run on args_flat.
\* flat_fun unflattens the arguments with in_tree and calls fun with the
\* fixed arguments put back.
xla_call_out(key, args_flat) ==
  LET entry == xla_call_cache(key)[key]
      un == tree_unflatten(key.in_tree, args_flat)
  IN FunResult(_argnums_partial(key.dyn_argnums, key.fixed_args, un.args),
               un.kwargs, entry.closure)

\* ------------------------------------------------------------- call records
\* What the model keeps of a call: its inputs and how it ended.  A call that
\* raised has status "raised" and the exception in exc; stage is the step of
\* the handler that ended it.
\* What an error message names: the values it formats.
Msg(named, static, donate, nargs) ==
  [named |-> named, static_argnums |-> static, donate_argnums |-> donate,
   nargs |-> nargs]

NoMsg == Msg({}, {}, {}, -1)

\* what _mapped_axis_size gave to one call: the size it returned, or the
\* error it raised and what the message names (the flat index, rank and axis
\* of the offending argument; or the axis size of every leaf, listed by
\* argument index or shown as a tree).  -1 stands for None.
AxisSize(exc, why, size, arg, rank, axis, sizes, form) ==
  [exc |-> exc, why |-> why, size |-> size, arg |-> arg, rank |-> rank,
   axis |-> axis, sizes |-> sizes, form |-> form]

NoAxisSize == AxisSize("none", "not called", -1, -1, -1, 0, <<>>, "none")

BaseCall(op, args, kwargs) ==
  [op |-> op, args |-> args, kwargs |-> kwargs,
   disabled |-> jax_disable_jit, closure |-> closure,
   status |-> "returned", exc |-> "none", stage |-> "none", msg |-> NoMsg,
   dyn_argnums |-> {}, fixed_args |-> <<>>, dyn_args |-> <<>>, args_flat |-> <<>>,
   in_tree |-> [args |-> <<>>, kwargs |-> <<>>], donated_invars |-> <<>>,
   in_axes_flat |-> <<>>, axis |-> NoAxisSize,
   execute |-> "None", fastpath |-> FALSE, detected |-> FALSE, reruns |-> 0,
   warning |-> <<>>,
   dispatched |-> FALSE, key |-> <<>>, compiled |-> FALSE, result |-> NoResult]

Raised(call, exc, stage) ==
  [call EXCEPT !.status = "raised", !.exc = exc, !.stage = stage]

\* the ValueError of the argument-count check, with its message
RaisedCount(call, msg) ==
  [call EXCEPT !.status = "raised", !.exc = "ValueError", !.stage = "argcount",
               !.msg = msg]

\* the call has got as far as flattening: what it computed on the way
Prepared(call, part, flat, donated_invars) ==
  [call EXCEPT !.dyn_argnums = part.dyn_argnums,
               !.fixed_args = part.fixed_args, !.dyn_args = part.dyn_args,
               !.args_flat = flat.leaves, !.in_tree = flat.treedef,
               !.donated_invars = donated_invars]

\* the call went through xla.xla_call and returned its unflattened output
ViaXlaCall(call) ==
  LET key == xla_call_key(call.dyn_argnums, call.fixed_args, call.in_tree,
                          call.args_flat, call.donated_invars)
  IN [call EXCEPT !.stage = "xla_call", !.dispatched = TRUE, !.key = key,
                  !.compiled = (key \notin DOMAIN cache),
                  !.result = xla_call_out(key, call.args_flat)]

\* ------------------------------------------------------------- jit
\* what jit(fun, static_argnums, device, backend, donate_argnums) gave: the
\* implementation that wrapped fun, or the exception raised while wrapping
Wrapper(impl, status, exc) == [impl |-> impl, status |-> status, exc |-> exc]

NoWrapper == Wrapper("none", "none", "none")

\* api._check_callable(fun), lines 150-154
_check_callable(kind) == kind = "function"

\* _python_jit(fun, static_argnums, device, backend, donate_argnums), lines
\* 266-310, up to `return f_jitted`
_python_jit(kind, dev, be) ==
  IF ~_check_callable(kind) THEN Wrapper("_python_jit", "raised", "TypeError")
  ELSE Wrapper("_python_jit", "wrapped", "none")

\* _cpp_jit(fun, static_argnums, device, backend, donate_argnums), lines
\* 366-505, up to `return f_jitted`
_cpp_jit(kind, dev, be) ==
  IF ~_check_callable(kind) THEN Wrapper("_cpp_jit", "raised", "TypeError")
  ELSE IF dev # "None" /\ be # "None" THEN Wrapper("_cpp_jit", "raised", "ValueError")
  ELSE Wrapper("_cpp_jit", "wrapped", "none")

\* jit(fun, static_argnums, device, backend, donate_argnums), lines 260-263
jit_wrap(kind, dev, be) ==
  IF experimental_cpp_jit THEN _cpp_jit(kind, dev, be) ELSE _python_jit(kind, dev, be)

jit ==
  /\ wrapper = NoWrapper
  /\ wrapper' = jit_wrap(fun_kind, device, backend)
  /\ UNCHANGED <<experimental_cpp_jit, device, backend, fun_kind>>
  /\ UNCHANGED <<except_wrap_vars, process_vars, last>>

\* ------------------------------------------------------------- _python_jit
\* a variant of the check that compares with > where the code has >=
jit_enough_args_off_by_one(static, donate, args) ==
  ~(Max(static \cup donate, -1) > Len(args))

\* f_jitted, line 284: the argument-count check passes
jit_enough_args(static, donate, args) ==
  ~(Max(static \cup donate, -1) >= Len(args))

\* f_jitted, lines 285-287: what the ValueError names
jit_count_msg(static, donate, args) ==
  Msg({"static_argnums", "donate_argnums", "len(args)"}, static, donate, Len(args))

\* a variant that forgets the static arguments: every argument stays dynamic
jit_partition_all_dynamic(static, args) == NoPartition(args)

\* f_jitted, lines 289-292: static/dynamic partitioning
jit_partition(static, args) ==
  IF static # {} THEN argnums_partial_except(static, args)
  ELSE NoPartition(args)

\* a variant that marks the donated arguments and not each of their leaves
jit_donated_invars_per_argument(donate, dyn_args, kwargs, args_flat) ==
  [i \in 1..Len(args_flat) |-> (i - 1) \in donate]

\* f_jitted, lines 294-297: the donation vector
jit_donated_invars(donate, dyn_args, kwargs, args_flat) ==
  IF donate # {} THEN donation_vector(donate, dyn_args, kwargs)
  ELSE [i \in 1..Len(args_flat) |-> FALSE]

\* f_jitted, lines 298-299: every flat argument passes _check_arg
jit_check_args(args_flat) ==
  \A i \in 1..Len(args_flat) : _check_arg(args_flat[i])

\* a variant without the disable_jit branch
jit_is_disabled_ignored(flag) == FALSE

\* f_jitted, lines 282-283: the disable_jit branch is taken
jit_is_disabled(flag) == flag

\* _python_jit.f_jitted(*args, **kwargs): the record of the whole call
f_jitted_call(args, kwargs) ==
  LET call == BaseCall("jit", args, kwargs)
  IN IF jit_is_disabled(jax_disable_jit)
     THEN [call EXCEPT !.stage = "direct",
                       !.result = FunResult(args, kwargs, closure)]
     ELSE IF ~jit_enough_args(static_argnums, donate_argnums, args)
     THEN RaisedCount(call, jit_count_msg(static_argnums, donate_argnums, args))
     ELSE LET part == jit_partition(static_argnums, args)
          IN IF part.exc # "none" THEN Raised(call, part.exc, "static")
             ELSE LET flat == tree_flatten(part.dyn_args, kwargs)
                      donated_invars == jit_donated_invars(
                          donate_argnums, part.dyn_args, kwargs, flat.leaves)
                      prep == Prepared(call, part, flat, donated_invars)
                  IN IF ~jit_check_args(flat.leaves)
                     THEN Raised(prep, "TypeError", "check_arg")
                     ELSE ViaXlaCall(prep)

\* what a call leaves behind in the cache and in the compiler's log
Record(call) ==
  /\ last' = call
  /\ cache' = IF call.stage = "xla_call" THEN xla_call_cache(call.key) ELSE cache
  /\ compile_log' = IF call.compiled
                    THEN Append(compile_log, [args |-> call.args, kwargs |-> call.kwargs])
                    ELSE compile_log
  /\ ncalls' = ncalls + 1

f_jitted(args, kwargs) ==
  /\ Record(f_jitted_call(args, kwargs))
  /\ UNCHANGED <<wrapper_vars, jax_disable_jit, disable_stack, closure>>

\* ------------------------------------------------------------- _cpp_jit
\* cache_miss, line 399: the argument-count check passes
cache_miss_enough_args(static, donate, args) ==
  ~(Max(static \cup donate, -1) >= Len(args))

\* cache_miss, lines 400-402: what the ValueError names
cache_miss_count_msg(static, donate, args) ==
  Msg({"static_argnums", "donate_argnums", "len(args)"}, static, donate, Len(args))

\* cache_miss, lines 404-407: static/dynamic partitioning
cache_miss_partition(static, args) ==
  IF static # {} THEN argnums_partial_except(static, args)
  ELSE NoPartition(args)

\* cache_miss, lines 409-412: the donation vector
cache_miss_donated_invars(donate, dyn_args, kwargs, args_flat) ==
  IF donate # {} THEN donation_vector(donate, dyn_args, kwargs)
  ELSE [i \in 1..Len(args_flat) |-> FALSE]

\* xla._xla_callable.most_recent_entry(): the entry this call's xla_call put
\* in the cache, None when xla_call found the entry there
most_recent_entry(call) == IF call.compiled THEN executor ELSE "None"

\* a variant of the decision that takes every kind of executor
use_fastpath_any_executor(execute, device_arrays) ==
  execute # "None" /\ device_arrays

\* cache_miss, lines 434-440: use_fastpath
use_fastpath(execute, device_arrays) ==
  execute # "None" /\ execute = "_execute_compiled" /\ device_arrays

\* _cpp_jit.cache_miss(*args, **kwargs), the slow path the C++ dispatcher
\* falls back to: the record of the whole call
cache_miss_call(args, kwargs) ==
  LET call == BaseCall("cpp_jit", args, kwargs)
  IN IF ~cache_miss_enough_args(static_argnums, donate_argnums, args)
     THEN RaisedCount(call, cache_miss_count_msg(static_argnums, donate_argnums, args))
     ELSE LET part == cache_miss_partition(static_argnums, args)
          IN IF part.exc # "none" THEN Raised(call, part.exc, "static")
             ELSE LET flat == tree_flatten(part.dyn_args, kwargs)
                      donated_invars == cache_miss_donated_invars(
                          donate_argnums, part.dyn_args, kwargs, flat.leaves)
                      prep == Prepared(call, part, flat, donated_invars)
                  IN IF \E i \in 1..Len(flat.leaves) : ~_check_arg(flat.leaves[i])
                     THEN Raised(prep, "TypeError", "check_arg")
                     ELSE LET out == ViaXlaCall(prep)
                              execute == most_recent_entry(out)
                          IN [out EXCEPT
                                !.execute = execute,
                                !.fastpath =
                                   use_fastpath(execute, device_array_outputs)]

\* The C++ dispatcher calls cache_miss only while jit is not disabled.
cache_miss(args, kwargs) ==
  /\ ~jax_disable_jit
  /\ Record(cache_miss_call(args, kwargs))
  /\ UNCHANGED <<wrapper_vars, jax_disable_jit, disable_stack, closure>>

\* lines 128-145: _nan_check_posthook is installed as the post_hook of the
\* C++ jit when a debug flag is set and the extension has the hook
post_hook_installed ==
  xla_extension_version >= 12 /\ (jax_debug_nans \/ jax_debug_infs)

\* _cpp_jit, lines 478 and 485: the Python wrapper makes the check itself
wrapper_checks ==
  /\ xla_extension_version < 13
  /\ (jax_debug_nans \/ jax_debug_infs) /\ ~jax_disable_jit

\* The check of the outputs and what follows it, in _nan_check_posthook
\* (lines 112-125) and in f_jitted (lines 487-499): when check_special raises
\* FloatingPointError, cache_miss is called again with the same arguments;
\* its exception ends the call, and when it returns the call goes on.
rerun_on_nan(call, checks, detected, rerun_raises) ==
  IF call.status = "raised" \/ ~(checks /\ detected) THEN call
  ELSE LET again == [call EXCEPT !.detected = TRUE, !.reruns = call.reruns + 1]
       IN IF rerun_raises THEN Raised(again, "FloatingPointError", "cache_miss")
          ELSE again

\* _cpp_jit.f_jitted(*args, **kwargs): the record of the whole call.
\* nonfinite: the outputs of the compiled call hold a value that check_special
\* refuses under the flags set; rerun_raises: the de-optimized run of
\* cache_miss raises (xla.xla_call does, "probably").
cpp_f_jitted_call(args, kwargs, nonfinite, rerun_raises) ==
  IF jax_disable_jit
  THEN [BaseCall("cpp_f_jitted", args, kwargs) EXCEPT
          !.stage = "fun", !.result = FunResult(args, kwargs, closure)]
  ELSE LET device_arrays ==
             [cache_miss_call(args, kwargs) EXCEPT !.op = "cpp_f_jitted"]
           hooked == rerun_on_nan(device_arrays, post_hook_installed,
                                  nonfinite, rerun_raises)
       IN rerun_on_nan(hooked, wrapper_checks, nonfinite, rerun_raises)

cpp_f_jitted(args, kwargs, nonfinite, rerun_raises) ==
  /\ Record(cpp_f_jitted_call(args, kwargs, nonfinite, rerun_raises))
  /\ UNCHANGED <<wrapper_vars, jax_disable_jit, disable_stack, closure>>

\* The fast-path data cache_miss returns for one signature, lines 444-454:
\* the executable (what it was traced with) and out_pytree_def
FastpathData(call) ==
  [key |-> call.key, closure |-> xla_call_cache(call.key)[call.key].closure]

\* a variant of the fast path that hands the executable the arguments *args
\* in place of the flat dynamic arguments
fastpath_run_all_args(data, args, args_flat) ==
  FunResult(args \o args, <<>>, data.closure)

\* the C++ fast path: the executable kept for the signature is run on the
\* flat dynamic arguments and its outputs are unflattened with out_pytree_def
fastpath_run(data, args, args_flat) ==
  LET un == tree_unflatten(data.key.in_tree, args_flat)
  IN FunResult(_argnums_partial(data.key.dyn_argnums, data.key.fixed_args, un.args),
               un.kwargs, data.closure)

\* cpp_jitted_f(*args, **kwargs), the object jax_jit.jit returns (lines
\* 500-503): a call whose signature has fast-path data runs the executable
\* directly, every other call goes through cache_miss
cpp_jitted_f_call(args, kwargs) ==
  LET slow == [cache_miss_call(args, kwargs) EXCEPT !.op = "cpp_jitted_f"]
      kept == {d \in fastpath_data : slow.dispatched /\ d.key = slow.key}
  IN IF kept # {}
     THEN LET data == CHOOSE d \in kept : TRUE
          IN [slow EXCEPT !.stage = "fastpath", !.compiled = FALSE,
                          !.execute = "None", !.fastpath = FALSE,
                          !.result = fastpath_run(data, args, slow.args_flat)]
     ELSE slow

cpp_jitted_f(args, kwargs) ==
  /\ ~jax_disable_jit
  /\ LET call == cpp_jitted_f_call(args, kwargs)
     IN /\ Record(call)
        /\ fastpath_data' = IF call.fastpath
                            THEN fastpath_data \cup {FastpathData(call)}
                            ELSE fastpath_data
  /\ UNCHANGED <<except_dispatcher_vars, jax_disable_jit, disable_stack, closure>>

\* ------------------------------------------------------------- debug flags
\* the other variables config_vars names
config_but_debug_vars ==
  <<static_argnums, declared_donate, donate_argnums, argnums, has_aux,
    holomorphic, allow_int, vmap_in_axes, executor, device_array_outputs,
    xla_extension_version, out_avals>>

\* lines 128 and 142-145: the update hooks are registered when the extension
\* has the post_hook
debug_hooks_registered == xla_extension_version >= 12

\* a variant that looks only at the value the hook is called with
_update_debug_special_of_value(val, nans, infs) ==
  IF val THEN "_nan_check_posthook" ELSE "None"

\* _update_debug_special_global(_) and _update_debug_special_thread_local(_),
\* lines 129-140: the post_hook set, from the two flags as they are read when
\* the hook runs; the value the hook is called with is not looked at
_update_debug_special(val, nans, infs) ==
  IF nans \/ infs THEN "_nan_check_posthook" ELSE "None"

\* the global post_hook after the global flags were set to nans and infs
global_hook_after(val, nans, infs) ==
  IF debug_hooks_registered THEN _update_debug_special(val, nans, infs)
  ELSE global_post_hook

\* the thread-local post_hook of thread t after its flags were set
thread_local_hook_after(t, val, nans, infs) ==
  IF debug_hooks_registered THEN _update_debug_special(val, nans, infs)
  ELSE thread_local_post_hook[t]

\* config.update("jax_debug_nans", val): the flag is set, then the global
\* update hook runs
update_debug_nans(val) ==
  /\ jax_debug_nans' = val
  /\ global_post_hook' = global_hook_after(val, val, jax_debug_infs)
  /\ UNCHANGED <<jax_debug_infs, tl_debug_nans, tl_debug_infs, thread_local_post_hook>>
  /\ UNCHANGED <<config_but_debug_vars, except_debug_vars_but_config, process_vars, last>>

\* config.update("jax_debug_infs", val)
update_debug_infs(val) ==
  /\ jax_debug_infs' = val
  /\ global_post_hook' = global_hook_after(val, jax_debug_nans, val)
  /\ UNCHANGED <<jax_debug_nans, tl_debug_nans, tl_debug_infs, thread_local_post_hook>>
  /\ UNCHANGED <<config_but_debug_vars, except_debug_vars_but_config, process_vars, last>>

\* thread t enters or leaves `with debug_nans(val):`: its thread-local flag
\* is set, then the thread-local update hook runs in t
set_thread_local_debug_nans(t, val) ==
  /\ tl_debug_nans' = [tl_debug_nans EXCEPT ![t] = val]
  /\ thread_local_post_hook' =
       [thread_local_post_hook EXCEPT
          ![t] = thread_local_hook_after(t, val, val, tl_debug_infs[t])]
  /\ UNCHANGED <<jax_debug_nans, jax_debug_infs, tl_debug_infs, global_post_hook>>
  /\ UNCHANGED <<config_but_debug_vars, except_debug_vars_but_config, process_vars, last>>

\* thread t enters or leaves `with debug_infs(val):`
set_thread_local_debug_infs(t, val) ==
  /\ tl_debug_infs' = [tl_debug_infs EXCEPT ![t] = val]
  /\ thread_local_post_hook' =
       [thread_local_post_hook EXCEPT
          ![t] = thread_local_hook_after(t, val, tl_debug_nans[t], val)]
  /\ UNCHANGED <<jax_debug_nans, jax_debug_infs, tl_debug_nans, global_post_hook>>
  /\ UNCHANGED <<config_but_debug_vars, except_debug_vars_but_config, process_vars, last>>

\* ------------------------------------------------------------- axis environment
\* an entry of the axis_env argument of make_jaxpr / xla_computation
AxisPair(name, size) == [name |-> name, size |-> size]

\* a call of jaxpr_maker or computation_maker in progress: the axis_env it
\* was built with (<<>> for None: the loop runs over `axis_env or []`), the
\* axis environment it found, how many contexts its ExitStack holds, where
\* it is, and the axis environment it left
Maker(op, env, before, entered, pc, raised) ==
  [op |-> op, env |-> env, before |-> before, entered |-> entered, pc |-> pc,
   raised |-> raised, after |-> <<>>]

NoMaker == Maker("none", <<>>, <<>>, 0, "none", FALSE)

\* a variant that closes the contexts oldest first
extend_axis_env_exit_oldest(stack) == Tail(stack)

\* core.extend_axis_env, on enter: the frame is appended to the thread's
\* axis environment
extend_axis_env_enter(stack, pair) == Append(stack, pair)

\* core.extend_axis_env, on exit: the last frame is popped
extend_axis_env_exit(stack) == SubSeq(stack, 1, Len(stack) - 1)

\* make_jaxpr.jaxpr_maker (lines 2120-2126) and
\* xla_computation.computation_maker (lines 709-732) come to their
\* `with ExitStack() as stack:`; a call made while another one traces is nested
maker_enter_with(op, env) ==
  /\ Len(makers) < MaxNest
  /\ makers # <<>> => makers[Len(makers)].pc = "tracing"
  /\ makers' = Append(makers, Maker(op, env, axis_env, 0, "entering", FALSE))
  /\ UNCHANGED <<axis_env, finished>>
  /\ UNCHANGED <<except_axis_vars, process_vars, last>>

\* lines 2127-2128 and 733-734: stack.enter_context(core.extend_axis_env(
\* axis_name, size, None)) for the next pair of axis_env
enter_context ==
  /\ makers # <<>>
  /\ LET n == Len(makers)
         m == makers[n]
     IN /\ m.pc = "entering" /\ m.entered < Len(m.env)
        /\ axis_env' = extend_axis_env_enter(axis_env, m.env[m.entered + 1])
        /\ makers' = [makers EXCEPT ![n].entered = m.entered + 1]
  /\ UNCHANGED finished
  /\ UNCHANGED <<except_axis_vars, process_vars, last>>

\* lines 2129 and 735: pe.trace_to_jaxpr_dynamic starts once every pair
\* was entered
trace_to_jaxpr_dynamic ==
  /\ makers # <<>>
  /\ LET n == Len(makers)
         m == makers[n]
     IN /\ m.pc = "entering" /\ m.entered = Len(m.env)
        /\ makers' = [makers EXCEPT ![n].pc = "tracing"]
  /\ UNCHANGED <<axis_env, finished>>
  /\ UNCHANGED <<except_axis_vars, process_vars, last>>

\* tracing ends, by returning or by raising: the `with` block is left
leave_with(raised) ==
  /\ makers # <<>>
  /\ LET n == Len(makers)
         m == makers[n]
     IN /\ m.pc = "tracing"
        /\ makers' = [makers EXCEPT ![n].pc = "exiting", ![n].raised = raised]
  /\ UNCHANGED <<axis_env, finished>>
  /\ UNCHANGED <<except_axis_vars, process_vars, last>>

\* ExitStack.__exit__ closes the contexts it holds, the last entered first
exit_context ==
  /\ makers # <<>>
  /\ LET n == Len(makers)
         m == makers[n]
     IN /\ m.pc = "exiting" /\ m.entered > 0
        /\ axis_env' = extend_axis_env_exit(axis_env)
        /\ makers' = [makers EXCEPT ![n].entered = m.entered - 1]
  /\ UNCHANGED finished
  /\ UNCHANGED <<except_axis_vars, process_vars, last>>

\* the `with` block is over: the call goes on to return, or the exception
\* goes on to the caller
maker_leave ==
  /\ makers # <<>>
  /\ LET n == Len(makers)
         m == makers[n]
     IN /\ m.pc = "exiting" /\ m.entered = 0
        /\ finished' = [m EXCEPT !.pc = "done", !.after = axis_env]
        /\ makers' = SubSeq(makers, 1, n - 1)
  /\ UNCHANGED axis_env
  /\ UNCHANGED <<except_axis_vars, process_vars, last>>

\* ------------------------------------------------------------- out_tree stores
\* flat_fun, out_tree = flatten_fun(f, in_tree): the flattened function and
\* the thunk that gives the structure of fun's output.  The thunk reads a
\* store that the flattened function writes when fun has returned; the
\* front-ends hand the flattened function to a tracer or dispatcher and read
\* the thunk further down.

\* the store flatten_fun makes: nothing written
EmptyStore == <<>>

\* Store.store(val)
Store_store(store, val) == <<val>>

\* Store.val, what out_tree() evaluates to: the value written, or
\* StoreException when nothing was
Store_val(store) ==
  IF store = EmptyStore
  THEN [exc |-> "StoreException", tree |-> [args |-> <<>>, kwargs |-> <<>>]]
  ELSE [exc |-> "none", tree |-> store[1]]

\* the structure of what fun(*args, **kwargs) returns: fun returns the tuple
\* of its positional arguments
fun_out_tree(in_tree) == [args |-> in_tree.args, kwargs |-> <<>>]

\* a variant of computation_maker that flattens out_parts before tracing
flat_call_steps_parts_first(op) ==
  CASE op = "f_jitted" -> <<"xla_call", "tree_unflatten">>
    [] op = "cache_miss" -> <<"xla_call", "out_pytree_def">>
    [] op = "batched_fun" -> <<"batch", "tree_unflatten">>
    [] op = "f_pmapped" -> <<"xla_pmap", "tree_unflatten">>
    [] op = "computation_maker" ->
         <<"out_parts", "trace_to_jaxpr_dynamic", "tree_unflatten">>

\* what each front-end does after flatten_fun, in the order of its lines:
\* the step that runs the flattened function, then the evaluations of
\* out_tree()
flat_call_steps(op) ==
  CASE op = "f_jitted" -> <<"xla_call", "tree_unflatten">>
    [] op = "cache_miss" -> <<"xla_call", "out_pytree_def">>
    [] op = "batched_fun" -> <<"batch", "tree_unflatten">>
    [] op = "f_pmapped" -> <<"xla_pmap", "tree_unflatten">>
    [] op = "computation_maker" ->
         <<"trace_to_jaxpr_dynamic", "out_parts", "tree_unflatten">>

\* the steps that hand the flattened function to a tracer or dispatcher
DispatchSteps == {"xla_call", "batch", "xla_pmap", "trace_to_jaxpr_dynamic"}

\* the dispatchers that keep what they traced: a later call with the same key
\* skips the tracing
CachedSteps == {"xla_call", "xla_pmap"}

\* the dispatchers that are given a deferred out_axes thunk, which they
\* evaluate when they have traced the function
ThunkSteps == {"batch", "xla_pmap"}

\* one evaluation of out_tree(): where, what it gave, and whether the store
\* was written and the flattened function run in this call by then
StoreRead(at, store, ran) ==
  [at |-> at, exc |-> Store_val(store).exc, tree |-> Store_val(store).tree,
   written |-> store # EmptyStore, ran |-> ran]

FlatCall(op, in_tree, fails) ==
  [op |-> op, in_tree |-> in_tree, fails |-> fails, pc |-> 1,
   status |-> "running", exc |-> "none", store |-> EmptyStore, ran |-> FALSE,
   hit |-> FALSE, reads |-> <<>>, out_tree |-> [args |-> <<>>, kwargs |-> <<>>]]

NoFlatCall ==
  [FlatCall("none", [args |-> <<>>, kwargs |-> <<>>], FALSE) EXCEPT !.status = "none"]

\* the key under which a dispatcher keeps what it traced
lu_cache_key(step, in_tree) == [via |-> step, in_tree |-> in_tree]

\* A front-end is called and gets as far as flatten_fun: a fresh store.
flatten_fun(op, args, kwargs, fails) ==
  /\ flat_call.status # "running"
  /\ nflat < MaxCalls
  /\ flat_call' = FlatCall(op, tree_flatten(args, kwargs).treedef, fails)
  /\ nflat' = nflat + 1
  /\ UNCHANGED lu_cache
  /\ UNCHANGED <<except_store_vars, process_vars, last>>

\* The call hands flat_fun to its tracer or dispatcher.  It runs the
\* function, which writes the store when fun returns and writes nothing when
\* fun raises; a dispatcher that kept the traced function under the same key
\* does not run it and puts the stores it kept back.  A dispatcher given the
\* deferred out_axes thunk evaluates it once the function was traced.
call_flat_fun ==
  /\ flat_call.status = "running"
  /\ LET c == flat_call
         step == flat_call_steps(c.op)[c.pc]
         key == lu_cache_key(step, c.in_tree)
         kept == {e \in lu_cache : e.key = key}
     IN /\ step \in DispatchSteps
        /\ IF step \in CachedSteps /\ kept # {}
           THEN /\ flat_call' = [c EXCEPT !.pc = c.pc + 1, !.hit = TRUE,
                                         !.store = (CHOOSE e \in kept : TRUE).stores]
                /\ UNCHANGED lu_cache
           ELSE IF c.fails
           THEN /\ flat_call' = [c EXCEPT !.status = "raised", !.exc = "FunError"]
                /\ UNCHANGED lu_cache
           ELSE LET written == Store_store(c.store, fun_out_tree(c.in_tree))
                IN /\ flat_call' =
                        [c EXCEPT !.pc = c.pc + 1, !.ran = TRUE, !.store = written,
                                  !.reads = IF step \in ThunkSteps
                                            THEN Append(c.reads,
                                                   StoreRead("out_axes_thunk", written, TRUE))
                                            ELSE c.reads]
                   /\ lu_cache' = IF step \in CachedSteps
                                  THEN lu_cache \cup {[key |-> key, stores |-> written]}
                                  ELSE lu_cache
  /\ UNCHANGED nflat
  /\ UNCHANGED <<except_store_vars, process_vars, last>>

\* The call evaluates out_tree(): StoreException when the store is empty;
\* the last evaluation is the one whose structure unflattens the results.
out_tree_thunk ==
  /\ flat_call.status = "running"
  /\ LET c == flat_call
         steps == flat_call_steps(c.op)
         step == steps[c.pc]
         read == StoreRead(step, c.store, c.ran)
     IN /\ step \notin DispatchSteps
        /\ flat_call' =
             IF read.exc # "none"
             THEN [c EXCEPT !.status = "raised", !.exc = read.exc,
                            !.reads = Append(c.reads, read)]
             ELSE IF c.pc = Len(steps)
             THEN [c EXCEPT !.status = "returned", !.out_tree = read.tree,
                            !.reads = Append(c.reads, read)]
             ELSE [c EXCEPT !.pc = c.pc + 1, !.reads = Append(c.reads, read)]
  /\ UNCHANGED <<lu_cache, nflat>>
  /\ UNCHANGED <<except_store_vars, process_vars, last>>

\* ------------------------------------------------------------- pmap
\* An axis specification: <<d>> for the integer axis d, <<>> for None.
\* The wrapper's in_axes (the default, 0).
in_axes == <<0>>

\* The out_axes a pmap wrapper can be built with: a pytree whose leaves are
\* integers; None is a pytree node without leaves.
OutAxis(d) == [node |-> "int", leaves |-> <<d>>]

OutAxisNone == [node |-> "None", leaves |-> <<>>]

OutAxisTuple(s) == [node |-> "tuple", leaves |-> s]

\* tree_flatten(out_axes): the pair (leaves, treedef), as the tuple Python
\* iterates over
tree_flatten_pair(tree) ==
  <<[type |-> "list", leaves |-> tree.leaves, node |-> "list"],
    [type |-> "PyTreeDef", leaves |-> <<>>, node |-> tree.node]>>

\* a variant that looks at the axis specification itself
any_out_axis_is_None_of_tree(tree) == tree.node = "None"

\* f_pmapped, line 1633: any(out_axis is None for out_axis in
\* tree_flatten(out_axes)); the loop runs over the pair
any_out_axis_is_None(tree) ==
  \E i \in 1..Len(tree_flatten_pair(tree)) :
     tree_flatten_pair(tree)[i].type = "NoneType"

\* tree_util.treedef_is_leaf(treedef) of the treedef of a keyword dictionary:
\* the treedef has one node, the dictionary itself
treedef_is_leaf(kwargs_tree) == kwargs_tree = <<>>

\* a variant of the lookup that takes only non-negative axes
_get_axis_size_nonnegative(shape, axis) ==
  IF 0 <= axis /\ axis < Len(shape) THEN shape[axis + 1] ELSE -1

\* _mapped_axis_size._get_axis_size: shape[axis] as Python indexes a tuple,
\* -1 when it raises IndexError
_get_axis_size(shape, axis) ==
  IF 0 <= axis /\ axis < Len(shape) THEN shape[axis + 1]
  ELSE IF -Len(shape) <= axis /\ axis < 0 THEN shape[Len(shape) + axis + 1]
  ELSE -1

\* _mapped_axis_size(tree, vals, dims, name, kws=True): the size, or the error
\* raised (both callers pass kws=True and the tree of (args, kwargs))
_mapped_axis_size(tree, vals, dims) ==
  LET mapped == {i \in 1..Len(vals) : dims[i] # <<>>}
      size_of(i) == _get_axis_size(Shape(vals[i]), dims[i][1])
      bad == {i \in mapped : size_of(i) = -1}
  IN IF bad # {}
     THEN LET i == CHOOSE b \in bad : \A c \in bad : b <= c
          IN AxisSize("ValueError", "rank", -1, i - 1, Len(Shape(vals[i])),
                      dims[i][1], <<>>, "none")
     ELSE LET mapped_axis_sizes == {size_of(i) : i \in mapped}
              sizes == [i \in 1..Len(vals) |->
                          IF i \in mapped THEN size_of(i) ELSE -1]
          IN IF Cardinality(mapped_axis_sizes) = 1
             THEN AxisSize("none", "none", CHOOSE z \in mapped_axis_sizes : TRUE,
                           -1, -1, 0, <<>>, "none")
             ELSE IF mapped_axis_sizes = {}
             THEN AxisSize("ValueError", "no mapped axis", -1, -1, -1, 0, <<>>,
                           "none")
             ELSE IF ~treedef_is_leaf(tree.kwargs)
             THEN AxisSize("AssertionError", "assert", -1, -1, -1, 0, <<>>, "none")
             ELSE IF \A k \in 1..Len(tree.args) : tree.args[k].node = "leaf"
             THEN AxisSize("ValueError", "inconsistent sizes", -1, -1, -1, 0,
                           sizes, "indices")
             ELSE AxisSize("ValueError", "inconsistent sizes", -1, -1, -1, 0,
                           sizes, "tree")

\* f_pmapped, lines 1596-1605 and 1618: static/dynamic partitioning; the
\* count check is made only when static arguments are declared
pmap_partition(static, args) ==
  IF static # {}
  THEN IF Max(static, -1) >= Len(args)
       THEN Partition("ValueError", {}, <<>>, <<>>)
       ELSE argnums_partial({i \in 0..(Len(args) - 1) : i \notin static}, args)
  ELSE NoPartition(args)

\* f_pmapped, lines 1598-1602: what the ValueError names
pmap_count_msg(static, args) ==
  Msg({"static_broadcasted_argnums", "len(args)"}, static, {}, Len(args))

\* f_pmapped, lines 1622-1625: the donation vector
pmap_donated_invars(donate, dyn_args, kwargs, args_flat) ==
  IF donate # {} THEN donation_vector(donate, dyn_args, kwargs)
  ELSE [i \in 1..Len(args_flat) |-> FALSE]

\* pmap.f_pmapped(*args, **kwargs): the record of the whole call
f_pmapped_call(args, kwargs) ==
  LET call == BaseCall("pmap", args, kwargs)
      part == pmap_partition(static_argnums, args)
  IN IF part.exc # "none"
     THEN RaisedCount(call, pmap_count_msg(static_argnums, args))
     ELSE LET flat == tree_flatten(part.dyn_args, kwargs)
              donated_invars == pmap_donated_invars(
                  donate_argnums, part.dyn_args, kwargs, flat.leaves)
              in_axes_flat == [i \in 1..Len(flat.leaves) |-> in_axes]
              size == _mapped_axis_size(flat.treedef, flat.leaves, in_axes_flat)
              prep == [Prepared(call, part, flat, donated_invars)
                         EXCEPT !.in_axes_flat = in_axes_flat, !.axis = size]
          IN IF size.exc # "none" THEN Raised(prep, size.exc, "mapped_axis_size")
             ELSE IF \E i \in 1..Len(flat.leaves) : ~_check_arg(flat.leaves[i])
             THEN Raised(prep, "TypeError", "check_arg")
             ELSE IF any_out_axis_is_None(out_axes)
             THEN Raised(prep, "NotImplementedError", "out_axes")
             ELSE [prep EXCEPT !.stage = "xla_pmap", !.dispatched = TRUE,
                               !.result = FunResult(args, kwargs, closure)]

f_pmapped(args, kwargs) ==
  /\ Record(f_pmapped_call(args, kwargs))
  /\ UNCHANGED <<wrapper_vars, jax_disable_jit, disable_stack, closure>>

\* ------------------------------------------------------------- vmap
\* The in_axes of a vmap wrapper: one axis specification for the whole
\* argument tuple, or a tuple with one axis specification per argument.
AllArgs(a) == [kind |-> "all", axes |-> <<a>>]

EachArg(s) == [kind |-> "each", axes |-> s]

RECURSIVE BroadcastAxes(_, _)
\* every leaf of the k-th argument gets the k-th axis specification
BroadcastAxes(structs, axes) ==
  IF structs = <<>> THEN <<>>
  ELSE [i \in 1..Head(structs).num_leaves |-> Head(axes)]
       \o BroadcastAxes(Tail(structs), Tail(axes))

\* api_util.flatten_axes(name, in_tree, (in_axes, 0), kws=True): in_axes is
\* matched as a tree prefix of the positional arguments and every leaf of
\* the keyword arguments gets axis 0; ValueError when it is not a prefix
flatten_axes(treedef, axes) ==
  LET kw == [i \in 1..NumLeaves(treedef.kwargs) |-> <<0>>]
  IN IF axes.kind = "all"
     THEN [exc |-> "none",
           flat |-> [i \in 1..NumLeaves(treedef.args) |-> axes.axes[1]] \o kw]
     ELSE IF Len(axes.axes) # Len(treedef.args)
     THEN [exc |-> "ValueError", flat |-> <<>>]
     ELSE [exc |-> "none", flat |-> BroadcastAxes(treedef.args, axes.axes) \o kw]

\* vmap.batched_fun(*args, **kwargs): the record of the whole call
batched_fun_call(args, kwargs) ==
  LET call == BaseCall("vmap", args, kwargs)
      flat == tree_flatten(args, kwargs)
      in_axes_flat == flatten_axes(flat.treedef, vmap_in_axes)
      prep == [call EXCEPT !.dyn_args = args, !.args_flat = flat.leaves,
                           !.in_tree = flat.treedef]
  IN IF in_axes_flat.exc # "none"
     THEN Raised(prep, in_axes_flat.exc, "flatten_axes")
     ELSE LET axis_size == _mapped_axis_size(flat.treedef, flat.leaves,
                                             in_axes_flat.flat)
              sized == [prep EXCEPT !.in_axes_flat = in_axes_flat.flat,
                                    !.axis = axis_size]
          IN IF axis_size.exc # "none"
             THEN Raised(sized, axis_size.exc, "mapped_axis_size")
             ELSE [sized EXCEPT !.stage = "batch", !.dispatched = TRUE,
                                !.result = FunResult(args, kwargs, closure)]

batched_fun(args, kwargs) ==
  /\ Record(batched_fun_call(args, kwargs))
  /\ UNCHANGED <<wrapper_vars, jax_disable_jit, disable_stack, closure>>

\* ------------------------------------------------------------- xla_computation
\* computation_maker, line 710: the argument-count check passes
xla_computation_enough_args(static, donate, args) ==
  ~(Max(static \cup donate, -1) >= Len(args))

\* computation_maker, lines 716-719: static/dynamic partitioning
xla_computation_partition(static, args) ==
  IF static # {} THEN argnums_partial_except(static, args)
  ELSE NoPartition(args)

\* computation_maker, lines 721-724: the donation vector
xla_computation_donated_invars(donate, dyn_args, kwargs, args_flat) ==
  IF donate # {} THEN donation_vector(donate, dyn_args, kwargs)
  ELSE [i \in 1..Len(args_flat) |-> FALSE]

\* the first position of donated whose buffer has the shape and dtype aval,
\* 0 when there is none
FirstDonation(avals, donated, aval) ==
  LET fit == {i \in 1..Len(avals) : donated[i] /\ avals[i] = aval}
  IN IF fit = {} THEN 0 ELSE CHOOSE i \in fit : \A j \in fit : i <= j

RECURSIVE set_up_aliases(_, _, _)
\* xla.set_up_aliases(c, xla_args, out_tuple, donated_invars, tuple_args):
\* every output in turn is aliased to the first donated buffer of its shape
\* and dtype still free; the vector of the donated buffers left over
set_up_aliases(avals, outs, donated) ==
  IF outs = <<>> THEN donated
  ELSE LET i == FirstDonation(avals, donated, Head(outs))
       IN set_up_aliases(
            avals, Tail(outs), IF i = 0 THEN donated ELSE [donated EXCEPT ![i] = FALSE])

\* the subsequence of s at the positions where keep holds
RECURSIVE SelectWhere(_, _)
SelectWhere(s, keep) ==
  IF s = <<>> THEN <<>>
  ELSE (IF Head(keep) THEN <<Head(s)>> ELSE <<>>) \o SelectWhere(Tail(s), Tail(keep))

\* a variant that lists every donated buffer, aliased or not
donation_warning_all_donated(avals, outs, donated_invars) ==
  SelectWhere(avals, donated_invars)

\* computation_maker, lines 758-763: the shapes the warning lists, none
\* when no warning is emitted
donation_warning(avals, outs, donated_invars) ==
  LET any(v) == \E i \in 1..Len(v) : v[i]
      left == IF any(donated_invars)
              THEN set_up_aliases(avals, outs, donated_invars)
              ELSE donated_invars
  IN IF any(left) THEN SelectWhere(avals, left) ELSE <<>>

\* xla_computation.computation_maker(*args, **kwargs): the record of the call.
\* The donation vector is handed to the builder (xla._xla_callable_args).
computation_maker_call(args, kwargs) ==
  LET call == BaseCall("xla_computation", args, kwargs)
  IN IF ~xla_computation_enough_args(static_argnums, donate_argnums, args)
     THEN RaisedCount(call, Msg({"static_argnums", "donate_argnums", "len(args)"},
                                static_argnums, donate_argnums, Len(args)))
     ELSE LET part == xla_computation_partition(static_argnums, args)
          IN IF part.exc # "none" THEN Raised(call, part.exc, "static")
             ELSE LET flat == tree_flatten(part.dyn_args, kwargs)
                      donated_invars == xla_computation_donated_invars(
                          donate_argnums, part.dyn_args, kwargs, flat.leaves)
                      prep == Prepared(call, part, flat, donated_invars)
                  IN IF \E i \in 1..Len(flat.leaves) :
                          abstractify(flat.leaves[i]) = "TypeError"
                     THEN Raised(prep, "TypeError", "shaped_abstractify")
                     ELSE [prep EXCEPT
                             !.stage = "build", !.dispatched = TRUE,
                             !.warning = donation_warning(
                                 [i \in 1..Len(flat.leaves) |->
                                    abstractify(flat.leaves[i])],
                                 out_avals, donated_invars),
                             !.result = Built(args, kwargs, closure)]

computation_maker(args, kwargs) ==
  /\ Record(computation_maker_call(args, kwargs))
  /\ UNCHANGED <<wrapper_vars, jax_disable_jit, disable_stack, closure>>

\* ------------------------------------------------------------- value_and_grad
\* argnums: an integer, or a sequence of integers (increasing here)
Index(i) == [is_int |-> TRUE, nums |-> <<i>>]

Indices(s) == [is_int |-> FALSE, nums |-> s]

\* the positions argnums selects
argnums_set(a) == {a.nums[k] : k \in 1..Len(a.nums)}

\* value_and_grad_f, line 884
max_argnum(a) == Max(argnums_set(a), -1)

\* The values the differentiated function is called with, and the outputs it
\* can produce: arrays, a tuple of arrays, None (the pytree without leaves).
GradObjs == {"x1", "v", "z", "n", "b", "fn"}

GradTrees == {Leaf(o) : o \in GradObjs} \cup {Tuple(<<"x1", "n">>), Tuple(<<"v", "z">>)}

GradArgLists == UNION {[1..n -> GradTrees] : n \in 0..MaxArgs}

GradKwArgs == {<<>>, <<Leaf("fn")>>}

None == Tuple(<<>>)

GradOutputs == {Leaf(o) : o \in {"x1", "z", "n", "b", "v", "w"}}
                 \cup {Tuple(<<"x1", "x1">>), None}

\* no output: fun was not called
NoTree == [node |-> "unset", leaves |-> <<>>]

\* an error message: the API named in it and its text ("" when nothing is raised)
ErrorMsg(name, text) == [name |-> name, text |-> text]

NoError(name) == ErrorMsg(name, "")

\* a variant that lets every array of one element through
_check_scalar_one_element(x) ==
  /\ x.node = "leaf"
  /\ _valid_jaxtype(x.leaves[1])
  /\ Shape(x.leaves[1]) \in {<<>>, <<1>>}

\* api._check_scalar(x): TRUE when it returns, FALSE when it raises TypeError
\* (core.get_aval raises for a container or None; the abstract values of
\* the leaves here are all ShapedArrays)
_check_scalar(x) ==
  /\ x.node = "leaf"
  /\ _valid_jaxtype(x.leaves[1])
  /\ Shape(x.leaves[1]) = <<>>

ScalarMsg == "Gradient only defined for scalar-output functions"

\* a variant that forgets the allow_int option
_check_input_dtype_revderiv_no_allow_int(name, holo, allow, x) ==
  IF ~_check_arg(x) THEN ErrorMsg(name, "is not a valid JAX type")
  ELSE IF holo
  THEN IF ~complexfloating(_dtype(x))
       THEN ErrorMsg(name, "with holomorphic=True requires inputs with complex dtype")
       ELSE NoError(name)
  ELSE IF ~(floating(_dtype(x)) \/ complexfloating(_dtype(x)))
  THEN ErrorMsg(name, "requires real- or complex-valued inputs")
  ELSE NoError(name)

\* api._check_input_dtype_revderiv(name, holomorphic, allow_int, x): the
\* message of the TypeError it raises, none when it returns
_check_input_dtype_revderiv(name, holo, allow, x) ==
  IF ~_check_arg(x) THEN ErrorMsg(name, "is not a valid JAX type")
  ELSE IF holo
  THEN IF ~complexfloating(_dtype(x))
       THEN ErrorMsg(name, "with holomorphic=True requires inputs with complex dtype")
       ELSE NoError(name)
  ELSE IF ~allow /\ ~(floating(_dtype(x)) \/ complexfloating(_dtype(x)))
  THEN ErrorMsg(name, "requires real- or complex-valued inputs")
  ELSE NoError(name)

\* a variant that takes every inexact output, holomorphic or not
_check_output_dtype_revderiv_inexact(name, holo, x) ==
  IF ~(floating(_dtype(x)) \/ complexfloating(_dtype(x)))
  THEN ErrorMsg(name, "requires real-valued outputs")
  ELSE NoError(name)

\* api._check_output_dtype_revderiv(name, holomorphic, x): the message of the
\* TypeError it raises, none when it returns
_check_output_dtype_revderiv(name, holo, x) ==
  IF holo
  THEN IF ~complexfloating(_dtype(x))
       THEN ErrorMsg(name, "with holomorphic=True requires outputs with complex dtype")
       ELSE NoError(name)
  ELSE IF ~floating(_dtype(x))
  THEN ErrorMsg(name, "requires real-valued outputs")
  ELSE NoError(name)

\* tree_map(check, trees) raises at the first leaf check raises for: that
\* leaf's message, none when every check returns. msgs are the leaves' messages.
FirstError(name, msgs) ==
  LET bad == {i \in 1..Len(msgs) : msgs[i].text # ""}
  IN IF bad = {} THEN NoError(name)
     ELSE msgs[CHOOSE i \in bad : \A j \in bad : i <= j]

\* tree_map(partial(_check_input_dtype_revderiv, name, holomorphic, allow_int), dyn_args)
check_input_dtypes(name, dyn_args) ==
  LET leaves == FlattenSeq(dyn_args)
  IN FirstError(name, [i \in 1..Len(leaves) |->
       _check_input_dtype_revderiv(name, holomorphic, allow_int, leaves[i])])

\* tree_map(partial(_check_output_dtype_revderiv, name, holomorphic), ans)
check_output_dtypes(name, ans) ==
  FirstError(name, [i \in 1..Len(ans.leaves) |->
       _check_output_dtype_revderiv(name, holomorphic, ans.leaves[i])])

\* the cotangent the backward pass of ad.vjp yields for the primal input x:
\* of x's shape and of the tangent dtype of x's dtype
Cotangent(x) ==
  [shape |-> Shape(x), dtype |-> primal_dtype_to_tangent_dtype(_dtype(x))]

\* the cotangents of a sequence of primal pytrees, in their structure
Cotangents(primals) ==
  [k \in 1..Len(primals) |->
     [node |-> primals[k].node,
      leaves |-> [j \in 1..Len(primals[k].leaves) |-> Cotangent(primals[k].leaves[j])]]]

\* api._vjp(fun, *primals, has_aux): the primals are validated, fun is
\* traced on them (its output is out) and the pullback is built
_vjp(primals, out) ==
  [exc |-> IF \A i \in 1..Len(FlattenSeq(primals)) : _check_arg(FlattenSeq(primals)[i])
           THEN "none" ELSE "TypeError",
   out_primal_py |-> out,
   out_tree |-> tree_structure(out),
   ct_dtypes |-> [k \in 1..Len(out.leaves) |->
                    primal_dtype_to_tangent_dtype(_dtype(out.leaves[k]))]]

\* api._vjp_pullback_wrapper(cotangent_dtypes, io_tree, fun, py_args): the
\* cotangent is checked against the primal output, then the backward pass runs
_vjp_pullback_wrapper(ct_dtypes, out_tree, primals, py_args) ==
  IF tree_structure(py_args) # out_tree
  THEN [exc |-> "TypeError", cotangents |-> <<>>]
  ELSE IF \E k \in 1..Len(py_args.leaves) :
            primal_dtype_to_tangent_dtype(_dtype(py_args.leaves[k])) # ct_dtypes[k]
  THEN [exc |-> "TypeError", cotangents |-> <<>>]
  ELSE [exc |-> "none", cotangents |-> Cotangents(primals)]

\* np.ones((), dtype=dtype)
np_ones(dtype) ==
  CASE dtype = "complex64" -> "z"
    [] dtype = "int32" -> "n"
    [] dtype = "bool" -> "b"
    [] OTHER -> "x1"

\* a gradient: the cotangent trees of the selected arguments; `single` when
\* argnums is an integer and the result is g[0]
Gradient(single, trees) == [single |-> single, trees |-> trees]

NoGradient == Gradient(FALSE, <<>>)

\* the record of one call of a differentiation front-end
GradCall(op, args, kwargs) ==
  [op |-> op, args |-> args, kwargs |-> kwargs,
   status |-> "returned", exc |-> "none", stage |-> "return",
   msg |-> NoError(""), dyn_args |-> <<>>,
   fun_called |-> FALSE, pullback_called |-> FALSE,
   ans |-> NoTree, g |-> NoGradient,
   result |-> [value |-> NoTree, aux |-> FALSE, grad |-> NoGradient]]

GradRaised(call, exc, stage, msg) ==
  [call EXCEPT !.status = "raised", !.exc = exc, !.stage = stage, !.msg = msg]

\* value_and_grad.value_and_grad_f(*args, **kwargs), lines 883-905; out is what
\* fun returns for these arguments (the differentiated output; with has_aux
\* fun returns it in a pair with the auxiliary data)
value_and_grad_f_call(op, args, kwargs, out) ==
  LET call == GradCall(op, args, kwargs)
  IN IF max_argnum(argnums) >= Len(args)
     THEN GradRaised(call, "TypeError", "argnums",
                     ErrorMsg("grad", "requires at least max_argnum + 1 positional arguments"))
     ELSE
     LET part == argnums_partial(argnums_set(argnums), args)
         bound == [call EXCEPT !.dyn_args = part.dyn_args]
         msg_in == check_input_dtypes("grad", part.dyn_args)
     IN IF msg_in.text # ""
        THEN GradRaised(bound, "TypeError", "input_dtype", msg_in)
        ELSE
        LET traced == _vjp(part.dyn_args, out)
            ans == traced.out_primal_py
            after == [bound EXCEPT !.fun_called = TRUE, !.ans = ans]
        IN IF traced.exc # "none"
           THEN GradRaised(bound, traced.exc, "vjp", ErrorMsg("vjp", "is not a valid JAX type"))
           ELSE IF ~_check_scalar(ans)
           THEN GradRaised(after, "TypeError", "check_scalar", ErrorMsg("grad", ScalarMsg))
           ELSE
           LET dtype == _dtype(ans.leaves[1])
               msg_out == check_output_dtypes("grad", ans)
           IN IF msg_out.text # ""
              THEN GradRaised(after, "TypeError", "output_dtype", msg_out)
              ELSE
              LET pulled == _vjp_pullback_wrapper(traced.ct_dtypes, traced.out_tree,
                                                  part.dyn_args, Leaf(np_ones(dtype)))
                  g == Gradient(argnums.is_int, pulled.cotangents)
                  called == [after EXCEPT !.pullback_called = TRUE]
              IN IF pulled.exc # "none"
                 THEN GradRaised(called, pulled.exc, "pullback",
                                 ErrorMsg("vjp", "cotangent does not match the primal output"))
                 ELSE [called EXCEPT !.g = g,
                         !.result = [value |-> ans, aux |-> has_aux, grad |-> g]]

\* grad.grad_f / grad.grad_f_aux, lines 827-838: the gradient of
\* value_and_grad_f's result, with the auxiliary data when has_aux
grad_f_call(args, kwargs, out) ==
  LET call == value_and_grad_f_call("grad", args, kwargs, out)
  IN IF call.status = "raised" THEN call
     ELSE [call EXCEPT !.result = [value |-> NoTree, aux |-> has_aux, grad |-> call.g]]

\* what a call of a differentiation front-end leaves behind
RecordGrad(call) ==
  /\ last' = call
  /\ previous' = last
  /\ ncalls' = ncalls + 1
  /\ UNCHANGED <<settled_vars, jax_disable_jit, disable_stack, closure, cache,
                 compile_log>>

value_and_grad_f(args, kwargs, out) ==
  RecordGrad(value_and_grad_f_call("value_and_grad", args, kwargs, out))

grad_f(args, kwargs, out) == RecordGrad(grad_f_call(args, kwargs, out))

\* ------------------------------------------------------------- jacrev
\* the Jacobian blocks: for every output leaf the cotangent trees of the
\* selected arguments, each leaf of the output's shape followed by the input's
Jacobian(y, primals) ==
  [k \in 1..Len(y.leaves) |->
     [i \in 1..Len(primals) |->
        [node |-> primals[i].node,
         leaves |-> [j \in 1..Len(primals[i].leaves) |->
            [shape |-> Shape(y.leaves[k]) \o Shape(primals[i].leaves[j]),
             dtype |-> primal_dtype_to_tangent_dtype(_dtype(primals[i].leaves[j]))]]]]]

NoMappedMsg == "must have at least one non-None value in in_axes"

\* vmap(...)(_std_basis(pytree)) has a mapped axis: the basis has one leaf
\* per leaf of pytree, and vmap's _mapped_axis_size raises ValueError when
\* there is none
_std_basis_maps(leaves) == Len(leaves) > 0

\* jacrev.jacfun(*args, **kwargs), lines 1051-1063 (jacrev wrappers have no
\* has_aux); out is what fun returns for these arguments
jacfun_call(args, kwargs, out) ==
  LET call == GradCall("jacrev", args, kwargs)
      part == argnums_partial(argnums_set(argnums), args)
  IN IF part.exc # "none"
     THEN GradRaised(call, part.exc, "argnums_partial", NoError("jacrev"))
     ELSE
     LET bound == [call EXCEPT !.dyn_args = part.dyn_args]
         msg_in == check_input_dtypes("jacrev", part.dyn_args)
     IN IF msg_in.text # ""
        THEN GradRaised(bound, "TypeError", "input_dtype", msg_in)
        ELSE
        LET traced == _vjp(part.dyn_args, out)
            y == traced.out_primal_py
            after == [bound EXCEPT !.fun_called = TRUE, !.ans = y]
            msg_out == check_output_dtypes("jacrev", y)
        IN IF traced.exc # "none"
           THEN GradRaised(bound, traced.exc, "vjp", ErrorMsg("vjp", "is not a valid JAX type"))
           ELSE IF msg_out.text # ""
           THEN GradRaised(after, "TypeError", "output_dtype", msg_out)
           ELSE IF ~_std_basis_maps(y.leaves)
           THEN GradRaised(after, "ValueError", "std_basis", ErrorMsg("vmap", NoMappedMsg))
           ELSE [after EXCEPT !.pullback_called = TRUE,
                   !.g = Gradient(argnums.is_int, Cotangents(part.dyn_args)),
                   !.result = [value |-> y, aux |-> FALSE,
                               grad |-> Gradient(argnums.is_int, Jacobian(y, part.dyn_args))]]

jacfun(args, kwargs, out) == RecordGrad(jacfun_call(args, kwargs, out))

\* ------------------------------------------------------------- jacfwd
\* api._check_input_dtype_jacfwd(holomorphic, x): the message of the
\* TypeError it raises, "" when it returns (jacfwd has no allow_int)
_check_input_dtype_jacfwd(holo, x) ==
  IF ~_check_arg(x) THEN "is not a valid JAX type"
  ELSE IF holo
  THEN IF complexfloating(_dtype(x)) /\ ~floating(_dtype(x)) THEN ""
       ELSE "jacfwd with holomorphic=True requires inputs with complex dtype"
  ELSE IF ~floating(_dtype(x)) THEN "jacfwd requires real-valued inputs"
  ELSE ""

\* api._check_output_dtype_jacfwd(holomorphic, x)
_check_output_dtype_jacfwd(holo, x) ==
  IF holo /\ ~complexfloating(_dtype(x))
  THEN "jacfwd with holomorphic=True requires outputs with complex dtype"
  ELSE ""

\* a variant that puts the input's axes before the output's
JacobianFwd_input_axes_first(y, primals) ==
  [k \in 1..Len(y.leaves) |->
     [i \in 1..Len(primals) |->
        [node |-> primals[i].node,
         leaves |-> [j \in 1..Len(primals[i].leaves) |->
            [shape |-> Shape(primals[i].leaves[j]) \o Shape(y.leaves[k]),
             dtype |-> primal_dtype_to_tangent_dtype(_dtype(y.leaves[k]))]]]]]

\* the Jacobian blocks jacfwd builds: the pushed-forward tangents of every
\* output leaf, their last axis unravelled into the selected arguments
JacobianFwd(y, primals) ==
  [k \in 1..Len(y.leaves) |->
     [i \in 1..Len(primals) |->
        [node |-> primals[i].node,
         leaves |-> [j \in 1..Len(primals[i].leaves) |->
            [shape |-> Shape(y.leaves[k]) \o Shape(primals[i].leaves[j]),
             dtype |-> primal_dtype_to_tangent_dtype(_dtype(y.leaves[k]))]]]]]

\* jacfwd.jacfun(*args, **kwargs), lines 983-991; out is what fun returns
\* for these arguments
jacfwd_jacfun_call(args, kwargs, out) ==
  LET call == GradCall("jacfwd", args, kwargs)
      part == argnums_partial(argnums_set(argnums), args)
  IN IF part.exc # "none"
     THEN GradRaised(call, part.exc, "argnums_partial", NoError("jacfwd"))
     ELSE
     LET bound == [call EXCEPT !.dyn_args = part.dyn_args]
         leaves == FlattenSeq(part.dyn_args)
         msg_in == FirstError("jacfwd", [i \in 1..Len(leaves) |->
                     ErrorMsg("jacfwd", _check_input_dtype_jacfwd(holomorphic, leaves[i]))])
     IN IF msg_in.text # ""
        THEN GradRaised(bound, "TypeError", "input_dtype", msg_in)
        ELSE IF ~_std_basis_maps(leaves)
        THEN GradRaised(bound, "ValueError", "std_basis", ErrorMsg("vmap", NoMappedMsg))
        ELSE
        LET y == out
            after == [bound EXCEPT !.fun_called = TRUE, !.ans = y]
            msg_out == FirstError("jacfwd", [k \in 1..Len(y.leaves) |->
                         ErrorMsg("jacfwd", _check_output_dtype_jacfwd(holomorphic, y.leaves[k]))])
        IN IF msg_out.text # ""
           THEN GradRaised(after, "TypeError", "output_dtype", msg_out)
           ELSE [after EXCEPT
                   !.result = [value |-> y, aux |-> FALSE,
                               grad |-> Gradient(argnums.is_int,
                                                 JacobianFwd(y, part.dyn_args))]]

jacfwd_jacfun(args, kwargs, out) == RecordGrad(jacfwd_jacfun_call(args, kwargs, out))

\* ------------------------------------------------------------- jvp
\* primals and tangents: a tuple or a list of pytrees, or one array
Container(kind, items) == [kind |-> kind, items |-> items]

JvpObjs == {"x1", "v", "n", "o", "z"}

JvpTrees == {Leaf(o) : o \in JvpObjs} \cup {Tuple(<<"x1", "n">>)}

JvpLists == UNION {[1..n -> JvpTrees] : n \in 0..MaxArgs}

JvpInputs ==
  {Container(kind, items) : kind \in {"tuple", "list"}, items \in JvpLists}
    \cup {Container("ndarray", <<Leaf(o)>>) : o \in {"x1", "v"}}

\* isinstance(x, (tuple, list))
is_tuple_or_list(x) == x.kind \in {"tuple", "list"}

\* tree_flatten(x) of a container: the leaves and the structure token
tree_flatten_one(x) ==
  [leaves |-> FlattenSeq(x.items),
   treedef |-> [kind |-> x.kind, children |-> Structures(x.items)]]

\* _jvp, line 1767: the tangent's dtype is the tangent dtype of the primal's
jvp_dtypes_match(p, t) == primal_dtype_to_tangent_dtype(_dtype(p)) = _dtype(t)

\* a variant that lets a scalar primal take a tangent of any shape
jvp_shapes_match_scalar_primal(p, t) == Shape(p) = <<>> \/ Shape(p) = Shape(t)

\* _jvp, line 1774: primal and tangent have the same shape
jvp_shapes_match(p, t) == Shape(p) = Shape(t)

\* the record of one call of jvp
JvpCall(primals, tangents) ==
  [op |-> "jvp", primals |-> primals, tangents |-> tangents,
   status |-> "returned", exc |-> "none", stage |-> "return",
   fun_called |-> FALSE]

JvpRaised(call, exc, stage) ==
  [call EXCEPT !.status = "raised", !.exc = exc, !.stage = stage]

\* api._jvp(fun, primals, tangents), lines 1753-1781
_jvp_call(primals, tangents) ==
  LET call == JvpCall(primals, tangents)
  IN IF ~is_tuple_or_list(primals) \/ ~is_tuple_or_list(tangents)
     THEN JvpRaised(call, "TypeError", "isinstance")
     ELSE
     LET ps == tree_flatten_one(primals)
         ts == tree_flatten_one(tangents)
     IN IF ps.treedef # ts.treedef
        THEN JvpRaised(call, "TypeError", "tree_def")
        ELSE
        LET ps_flat == ps.leaves
            ts_flat == ts.leaves
            bad == {i \in 1..Len(ps_flat) :
                      \/ ~jvp_dtypes_match(ps_flat[i], ts_flat[i])
                      \/ ~jvp_shapes_match(ps_flat[i], ts_flat[i])}
        IN IF bad = {}
           THEN [call EXCEPT !.fun_called = TRUE]
           ELSE LET i == CHOOSE k \in bad : \A j \in bad : k <= j
                IN IF ~jvp_dtypes_match(ps_flat[i], ts_flat[i])
                   THEN JvpRaised(call, "TypeError", "dtype")
                   ELSE JvpRaised(call, "ValueError", "shape")

\* jvp(fun, primals, tangents), lines 1718-1751
jvp(primals, tangents) == RecordGrad(_jvp_call(primals, tangents))

\* ------------------------------------------------------------- vjp
\* The primals vjp is called with, the outputs fun can produce and the
\* cotangents the pullback is called with.
VjpPrimals == {<<Leaf("x1")>>, <<Leaf("v")>>, <<Leaf("fn")>>, <<Leaf("x1"), Leaf("n")>>}

VjpTrees ==
  {Leaf(o) : o \in {"x1", "z", "n", "b", "o", "v"}}
    \cup {Tuple(<<"x1", "x1">>), Tuple(<<"x1", "n">>), None}

\* the record of vjp(fun, *primals) and of the pullback's call
VjpCall(op, primals) ==
  [op |-> op, primals |-> primals,
   status |-> "returned", exc |-> "none", stage |-> "return",
   fun_called |-> FALSE, out |-> NoTree, out_tree |-> tree_structure(NoTree),
   ct_dtypes |-> <<>>, ct |-> NoTree, backward_called |-> FALSE,
   cotangents |-> <<>>]

\* vjp(fun, *primals), lines 1913-1955 with _vjp, lines 1957-1980: out is
\* what fun returns for the primals
vjp_call(primals, out) ==
  LET call == VjpCall("vjp", primals)
      traced == _vjp(primals, out)
  IN IF traced.exc # "none"
     THEN [call EXCEPT !.status = "raised", !.exc = traced.exc, !.stage = "check_arg"]
     ELSE [call EXCEPT !.fun_called = TRUE, !.out = traced.out_primal_py,
                       !.out_tree = traced.out_tree, !.ct_dtypes = traced.ct_dtypes]

\* vjp_py(ct): the pullback vjp returned is called with a cotangent
vjp_py_call(made, ct) ==
  LET pulled == _vjp_pullback_wrapper(made.ct_dtypes, made.out_tree, made.primals, ct)
      call == [made EXCEPT !.op = "vjp_py", !.ct = ct]
  IN IF pulled.exc # "none"
     THEN [call EXCEPT !.status = "raised", !.exc = pulled.exc, !.stage = "pullback"]
     ELSE [call EXCEPT !.backward_called = TRUE, !.cotangents = pulled.cotangents]

vjp(primals, out) == RecordGrad(vjp_call(primals, out))

vjp_py(ct) ==
  /\ last.op = "vjp" /\ last.status = "returned"
  /\ RecordGrad(vjp_py_call(last, ct))

\* ------------------------------------------------------------- trace stack
\* The kinds of trace the transformations enter.
TraceTypes == {"JVPTrace", "BatchTrace", "DynamicJaxprTrace"}

\* a trace level: its position in the stack, its kind, and when it was pushed
MainTrace(level, trace_type, serial) ==
  [level |-> level, trace_type |-> trace_type, serial |-> serial]

\* a variant of leaving that keeps the trace level when the body raised
leave_tracing_keep_on_raise(stack, raised) ==
  IF raised THEN stack ELSE SubSeq(stack, 1, Len(stack) - 1)

\* Leaving Tracing, by return or by exception: the trace level is popped
leave_tracing(stack, raised) == SubSeq(stack, 1, Len(stack) - 1)

\* Entering Tracing: a transformation call starts and pushes one new trace
\* level, at most MaxNest deep
EnterTracing(trace_type) ==
  /\ npush < MaxPushes
  /\ Len(frames) < MaxNest
  /\ LET main == MainTrace(Len(trace_stack), trace_type, npush + 1)
     IN /\ trace_stack' = Append(trace_stack, main)
        /\ frames' = Append(frames, [main |-> main])
  /\ npush' = npush + 1
  /\ last' = [op |-> "enter", status |-> "running"]
  /\ UNCHANGED <<config_vars, later_vars, pairing_vars, thread_vars, process_vars>>

\* Leaving Tracing: the innermost transformation call returns or raises
LeaveTracing(raised) ==
  /\ frames # <<>>
  /\ trace_stack' = leave_tracing(trace_stack, raised)
  /\ frames' = SubSeq(frames, 1, Len(frames) - 1)
  /\ last' = [op |-> "leave", status |-> IF raised THEN "raised" ELSE "returned"]
  /\ npush' = npush
  /\ UNCHANGED <<config_vars, later_vars, pairing_vars, thread_vars, process_vars>>

\* ------------------------------------------------------------- linear_util
\* The transformations f_jitted stacks on lu.wrap_init(fun) (lines 288-295),
\* and two that the differentiation and mapping front-ends stack.
TransformNames == {"_argnums_partial", "flatten_fun", "jvpfun", "_batch_fun"}

Event(kind, name) == [kind |-> kind, name |-> name]

\* the events of one kind in a log
EventsOf(log, kind) == {i \in 1..Len(log) : log[i].kind = kind}

\* a variant that lets the base callable run again after every input transform
base_is_due_each_layer(ntransforms, log) ==
  /\ Len(log) <= ntransforms
  /\ Len(log) > 0

\* WrappedFun.call_wrapped: the base callable is called when every input
\* transform has run, once
base_is_due(ntransforms, log) == Len(log) = ntransforms

\* WrappedFun.wrap: one more transform pair is attached; the transform
\* attached last is the first to see the arguments
wrap(name) ==
  /\ events = <<>>
  /\ Len(transforms) < MaxTransforms
  /\ transforms' = <<name>> \o transforms
  /\ UNCHANGED <<events, last, config_vars, later_vars, trace_vars, thread_vars, process_vars>>

\* call_wrapped, the first loop: the next input transform runs
run_input_transform ==
  /\ EventsOf(events, "base") = {}
  /\ Cardinality(EventsOf(events, "in")) < Len(transforms)
  /\ events' = Append(events,
        Event("in", transforms[Cardinality(EventsOf(events, "in")) + 1]))
  /\ UNCHANGED <<transforms, last, config_vars, later_vars, trace_vars, thread_vars,
                 process_vars>>

\* call_wrapped: ans = self.f(*args, **kwargs)
call_base ==
  /\ base_is_due(Len(transforms), events)
  /\ events' = Append(events, Event("base", "fun"))
  /\ UNCHANGED <<transforms, last, config_vars, later_vars, trace_vars, thread_vars,
                 process_vars>>

\* call_wrapped, the second loop: the output half of the transform on top
\* of the stack of the transforms entered runs
run_output_transform ==
  LET done == Cardinality(EventsOf(events, "out"))
  IN /\ EventsOf(events, "base") # {}
     /\ done < Len(transforms)
     /\ events' = Append(events, Event("out", transforms[Len(transforms) - done]))
     /\ UNCHANGED <<transforms, last, config_vars, later_vars, trace_vars, thread_vars,
                    process_vars>>

\* ------------------------------------------------------------- threads
\* The threads call one jit-wrapped function of one argument, without static
\* or donated arguments: two floats (with the same cache key) and an array.
ThreadArgs == {<<Leaf("x1")>>, <<Leaf("x2")>>, <<Leaf("v")>>}

thread_key(args) ==
  LET flat == tree_flatten(args, <<>>)
  IN xla_call_key({}, <<>>, flat.treedef, flat.leaves,
                  [i \in 1..Len(flat.leaves) |-> FALSE])

\* the executable a thread's compilation of key makes
Executable(key, c, t) == [key |-> key, closure |-> c, by |-> t]

NoExecutable == Executable(thread_key(<<>>), 0, 0)

\* two executables give the same values: they were compiled from the same
\* key and the same function
Equivalent(e1, e2) == e1.key = e2.key /\ e1.closure = e2.closure

\* where a thread is in its call: idle, missed (it looked the key up and
\* found nothing), compiled, done
Thread(pc, args, exe, got) ==
  [pc |-> pc, args |-> args, key |-> thread_key(args), exe |-> exe, got |-> got]

IdleThread == Thread("idle", <<>>, NoExecutable, NoExecutable)

\* a variant that adds the entry and keeps what the cache holds for the key
cache_store_keep_both(entries, key, exe) ==
  entries \cup {[key |-> key, exe |-> exe]}

\* the compilation cache takes the entry of key: the entry it held for
\* key, if any, is replaced
cache_store(entries, key, exe) ==
  {e \in entries : e.key # key} \cup {[key |-> key, exe |-> exe]}

\* a thread calls the function: it looks the key of its arguments up
thread_lookup(t, args) ==
  LET key == thread_key(args)
      hit == {e \in cache_entries : e.key = key}
  IN /\ threads[t].pc = "idle"
     /\ threads' = [threads EXCEPT ![t] =
          IF hit # {}
          THEN Thread("done", args, NoExecutable, (CHOOSE e \in hit : TRUE).exe)
          ELSE Thread("missed", args, NoExecutable, NoExecutable)]
     /\ UNCHANGED <<cache_entries, last, config_vars, later_vars, trace_vars, pairing_vars,
                    process_vars>>

\* a thread that missed compiles the function
thread_compile(t) ==
  /\ threads[t].pc = "missed"
  /\ threads' = [threads EXCEPT ![t] =
       Thread("compiled", threads[t].args,
              Executable(threads[t].key, closure, t), NoExecutable)]
  /\ UNCHANGED <<cache_entries, last, config_vars, later_vars, trace_vars, pairing_vars,
                 process_vars>>

\* a thread that compiled puts its executable in the cache and runs it
thread_store(t) ==
  /\ threads[t].pc = "compiled"
  /\ cache_entries' = cache_store(cache_entries, threads[t].key, threads[t].exe)
  /\ threads' = [threads EXCEPT ![t] =
       Thread("done", threads[t].args, threads[t].exe, threads[t].exe)]
  /\ UNCHANGED <<last, config_vars, later_vars, trace_vars, pairing_vars, process_vars>>

\* a thread's call has returned: the thread may call again
thread_return(t) ==
  /\ threads[t].pc = "done"
  /\ threads' = [threads EXCEPT ![t] = IdleThread]
  /\ UNCHANGED <<cache_entries, last, config_vars, later_vars, trace_vars, pairing_vars,
                 process_vars>>

\* ------------------------------------------------------------- tree_util
\* a treedef is unflattened with a list of leaves and the result flattened
unflatten_flatten(treedef, leaves) ==
  /\ ncalls = 0
  /\ ncalls' = 1
  /\ last' = unflatten_flatten_call(treedef, leaves)
  /\ UNCHANGED <<wrapper_vars, jax_disable_jit, disable_stack, closure, cache,
                 compile_log>>

\* ------------------------------------------------------------- disable_jit
\* `with disable_jit():` is entered: the flag is saved and set
EnterDisableJit ==
  /\ Len(disable_stack) < MaxNest
  /\ disable_stack' = Append(disable_stack, jax_disable_jit)
  /\ jax_disable_jit' = TRUE
  /\ UNCHANGED <<wrapper_vars, closure, cache, compile_log, ncalls, last>>

\* the innermost `with disable_jit():` block is left: the saved flag is restored
ExitDisableJit ==
  /\ disable_stack # <<>>
  /\ jax_disable_jit' = disable_stack[Len(disable_stack)]
  /\ disable_stack' = SubSeq(disable_stack, 1, Len(disable_stack) - 1)
  /\ UNCHANGED <<wrapper_vars, closure, cache, compile_log, ncalls, last>>

\* ------------------------------------------------------------- specification
InitMapDefaults ==
  vmap_in_axes = AllArgs(<<0>>)

InitBackendDefaults ==
  /\ executor = "_execute_compiled"
  /\ device_array_outputs = TRUE

InitDebugDefaults ==
  /\ jax_debug_nans = FALSE
  /\ jax_debug_infs = FALSE
  /\ xla_extension_version = 13

InitOutputDefaults ==
  out_avals = <<"f32[]">>

InitTraceDefaults ==
  /\ trace_stack = <<>>
  /\ frames = <<>>
  /\ npush = 0

InitPairingDefaults ==
  /\ transforms = <<>>
  /\ events = <<>>

InitThreadDefaults ==
  /\ threads = <<>>
  /\ cache_entries = {}

InitHistoryDefaults ==
  previous = NoCall

InitDispatcherDefaults ==
  fastpath_data = {}

InitPmapDefaults ==
  out_axes = OutAxis(0)

InitWrapDefaults ==
  /\ experimental_cpp_jit = TRUE
  /\ device = "None"
  /\ backend = "None"
  /\ fun_kind = "function"
  /\ wrapper = Wrapper("_cpp_jit", "wrapped", "none")

InitDebugHookDefaults ==
  /\ tl_debug_nans = [t \in 1..MaxThreads |-> FALSE]
  /\ tl_debug_infs = [t \in 1..MaxThreads |-> FALSE]
  /\ global_post_hook =
       (IF xla_extension_version >= 12 /\ (jax_debug_nans \/ jax_debug_infs)
        THEN "_nan_check_posthook" ELSE "None")
  /\ thread_local_post_hook = [t \in 1..MaxThreads |-> "None"]

InitAxisDefaults ==
  /\ axis_env = <<>>
  /\ makers = <<>>
  /\ finished = NoMaker

InitStoreDefaults ==
  /\ flat_call = NoFlatCall
  /\ lu_cache = {}
  /\ nflat = 0

\* the process has started and nothing was called
InitProcess ==
  /\ jax_disable_jit = FALSE
  /\ disable_stack = <<>>
  /\ closure = 0
  /\ cache = <<>>
  /\ compile_log = <<>>
  /\ ncalls = 0
  /\ last = NoCall

\* jit/pmap/xla_computation with the default static_argnums=() and donate_argnums=()
InitJitDefaults ==
  /\ static_argnums = {}
  /\ declared_donate = {}
  /\ donate_argnums = rebase_donate_argnums(declared_donate, static_argnums)

\* grad/value_and_grad/jacrev with the default argnums=0, has_aux=False,
\* holomorphic=False, allow_int=False
InitGradDefaults ==
  /\ argnums = Index(0)
  /\ has_aux = FALSE
  /\ holomorphic = FALSE
  /\ allow_int = FALSE

\* jit(fun, static_argnums, donate_argnums) has wrapped fun; nothing was called.
Init ==
  /\ static_argnums \in SUBSET Positions
  /\ declared_donate \in SUBSET Positions
  /\ static_argnums \cap declared_donate = {}
  /\ donate_argnums = rebase_donate_argnums(declared_donate, static_argnums)
  /\ InitGradDefaults
  /\ InitProcess
  /\ InitMapDefaults
  /\ InitBackendDefaults
  /\ InitDebugDefaults
  /\ InitOutputDefaults
  /\ InitTraceDefaults
  /\ InitPairingDefaults
  /\ InitThreadDefaults
  /\ InitHistoryDefaults
  /\ InitStoreDefaults
  /\ InitAxisDefaults
  /\ InitDebugHookDefaults
  /\ InitWrapDefaults
  /\ InitPmapDefaults
  /\ InitDispatcherDefaults

\* the argnums a differentiation wrapper is built with
ArgnumsChoices == {Index(i) : i \in Positions} \cup {Indices(<<0, 1>>)}

\* value_and_grad/grad/jacrev(fun, argnums, has_aux, holomorphic, allow_int)
\* has wrapped fun; nothing was called.
InitGrad ==
  /\ InitJitDefaults
  /\ argnums \in ArgnumsChoices
  /\ has_aux \in BOOLEAN
  /\ holomorphic \in BOOLEAN
  /\ allow_int \in BOOLEAN
  /\ InitProcess
  /\ InitMapDefaults
  /\ InitBackendDefaults
  /\ InitDebugDefaults
  /\ InitOutputDefaults
  /\ InitTraceDefaults
  /\ InitPairingDefaults
  /\ InitThreadDefaults
  /\ InitHistoryDefaults
  /\ InitStoreDefaults
  /\ InitAxisDefaults
  /\ InitDebugHookDefaults
  /\ InitWrapDefaults
  /\ InitPmapDefaults
  /\ InitDispatcherDefaults

\* jvp takes fun at the call: there is no wrapper
InitJvp == InitJitDefaults /\ InitGradDefaults /\ InitProcess /\ InitMapDefaults /\ InitBackendDefaults /\ InitDebugDefaults /\ InitOutputDefaults /\ InitTraceDefaults /\ InitPairingDefaults /\ InitThreadDefaults /\ InitHistoryDefaults /\ InitStoreDefaults /\ InitAxisDefaults /\ InitDebugHookDefaults /\ InitWrapDefaults /\ InitPmapDefaults /\ InitDispatcherDefaults

\* fun's enclosing scope is rebound (the test rebinds `dimensions` between calls)
SetClosure ==
  /\ closure' \in {0, 1} \ {closure}
  /\ UNCHANGED <<wrapper_vars, jax_disable_jit, disable_stack, cache,
                 compile_log, ncalls, last>>

\* Spec follows one call of one front-end, made inside or outside of
\* disable_jit contexts, for every wrapper and every argument list.
Next ==
  \/ EnterDisableJit
  \/ ExitDisableJit
  \/ /\ ncalls = 0
     /\ \E args \in ArgLists, kwargs \in KwArgs : f_jitted(args, kwargs)
  \/ /\ ncalls = 0
     /\ \E args \in ArgLists, kwargs \in KwArgs : cache_miss(args, kwargs)
  \/ /\ ncalls = 0
     /\ \E args \in ArgLists, kwargs \in KwArgs : f_pmapped(args, kwargs)
  \/ /\ ncalls = 0
     /\ \E args \in ArgLists, kwargs \in KwArgs : computation_maker(args, kwargs)

Spec == Init /\ [][Next]_vars

\* SpecCache follows up to MaxCalls calls of one jit-wrapped function, with
\* the closure rebound in between: the arguments are floats and arrays, at
\* most MaxCacheArgs of them. The wrapper is _python_jit's or _cpp_jit's
\* (jit, lines 260-263), the same at every call.
CacheTrees == {Leaf("x1"), Leaf("x2"), Leaf("v")}

CacheArgLists == UNION {[1..n -> CacheTrees] : n \in 0..MaxCacheArgs}

InitCache ==
  /\ static_argnums \in SUBSET (0..(MaxCacheArgs - 1))
  /\ declared_donate \in SUBSET (0..(MaxCacheArgs - 1))
  /\ static_argnums \cap declared_donate = {}
  /\ donate_argnums = rebase_donate_argnums(declared_donate, static_argnums)
  /\ InitGradDefaults
  /\ InitProcess
  /\ InitMapDefaults
  /\ InitBackendDefaults
  /\ InitDebugDefaults
  /\ InitOutputDefaults
  /\ InitTraceDefaults
  /\ InitPairingDefaults
  /\ InitThreadDefaults
  /\ InitHistoryDefaults
  /\ InitStoreDefaults
  /\ InitAxisDefaults
  /\ InitDebugHookDefaults
  /\ InitWrapDefaults
  /\ InitPmapDefaults
  /\ InitDispatcherDefaults

NextCache ==
  \/ SetClosure
  \/ /\ ncalls < MaxCalls /\ last.op \in {"none", "jit"}
     /\ \E args \in CacheArgLists : f_jitted(args, <<>>)
  \/ /\ ncalls < MaxCalls /\ last.op \in {"none", "cpp_jit"}
     /\ \E args \in CacheArgLists : cache_miss(args, <<>>)

SpecCache == InitCache /\ [][NextCache]_vars

\* SpecGrad follows one call of a function wrapped by value_and_grad, grad or
\* jacrev (jacrev takes no has_aux), for every wrapper, argument list and
\* output of fun.
NextGrad ==
  \/ /\ ncalls = 0
     /\ \E args \in GradArgLists, kwargs \in GradKwArgs, out \in GradOutputs :
          value_and_grad_f(args, kwargs, out)
  \/ /\ ncalls = 0
     /\ \E args \in GradArgLists, kwargs \in GradKwArgs, out \in GradOutputs :
          grad_f(args, kwargs, out)
  \/ /\ ncalls = 0 /\ ~has_aux
     /\ \E args \in GradArgLists, kwargs \in GradKwArgs, out \in GradOutputs :
          jacfun(args, kwargs, out)

SpecGrad == InitGrad /\ [][NextGrad]_vars

\* The arguments and outputs of the functions whose Jacobians are compared:
\* real and complex scalars, arrays of shape (3,) and (4,), an integer, tuples
\* of arrays and None.
JacTrees == {Leaf(o) : o \in {"x1", "v", "z", "n"}} \cup {Tuple(<<"x1", "v">>), None}

JacArgLists == UNION {[1..n -> JacTrees] : n \in 1..MaxArgs}

JacOutputs == {Leaf(o) : o \in {"x1", "u", "z", "n"}} \cup {Tuple(<<"u", "x1">>), None}

\* jacfwd(fun, argnums, holomorphic) and jacrev(fun, argnums, holomorphic,
\* allow_int) have wrapped the same fun; nothing was called.
InitJac ==
  /\ InitGrad
  /\ ~has_aux

\* SpecJac follows jacfwd(f)(x) and jacrev(f)(x), in either order, for every
\* wrapper, argument list and output of f.
NextJac ==
  \/ /\ previous.op = "none" /\ last.op \in {"none", "jacrev"}
     /\ \E args \in JacArgLists, kwargs \in GradKwArgs, out \in JacOutputs :
          /\ last.op = "jacrev" => args = last.args /\ kwargs = last.kwargs
          /\ jacfwd_jacfun(args, kwargs, out)
  \/ /\ previous.op = "none" /\ last.op \in {"none", "jacfwd"}
     /\ \E args \in JacArgLists, kwargs \in GradKwArgs, out \in JacOutputs :
          /\ last.op = "jacfwd" => args = last.args /\ kwargs = last.kwargs
          /\ jacfun(args, kwargs, out)

SpecJac == InitJac /\ [][NextJac]_vars

\* SpecJvp follows one call of jvp for every pair of primals and tangents.
NextJvp ==
  /\ ncalls = 0
  /\ \E primals \in JvpInputs, tangents \in JvpInputs : jvp(primals, tangents)

SpecJvp == InitJvp /\ [][NextJvp]_vars

\* SpecVjp follows one call of vjp and one call of the pullback it returned.
NextVjp ==
  \/ /\ ncalls = 0
     /\ \E primals \in VjpPrimals, out \in VjpTrees : vjp(primals, out)
  \/ \E ct \in VjpTrees : vjp_py(ct)

SpecVjp == InitJvp /\ [][NextVjp]_vars

\* ---- the mapping front-ends: vmap with every kind of in_axes, pmap with
\* the default in_axes, called with arrays of ranks 0 to 2
MapTrees ==
  {Leaf(o) : o \in {"x1", "v", "w", "m"}}
    \cup {Tuple(<<"v", "w">>), Tuple(<<"v", "v">>)}

MapArgLists == UNION {[1..n -> MapTrees] : n \in 0..MaxArgs}

MapKwArgs == {<<>>, <<Leaf("v")>>, <<Leaf("w")>>}

MapAxes ==
  {AllArgs(<<0>>), AllArgs(<<>>), AllArgs(<<1>>), AllArgs(<<-1>>),
   EachArg(<<<<0>>, <<>>>>), EachArg(<<<<0>>, <<1>>>>), EachArg(<<<<-2>>, <<0>>>>),
   EachArg(<<<<-1>>>>)}

InitMap ==
  /\ InitJitDefaults
  /\ InitGradDefaults
  /\ InitProcess
  /\ vmap_in_axes \in MapAxes
  /\ InitBackendDefaults
  /\ InitDebugDefaults
  /\ InitOutputDefaults
  /\ InitTraceDefaults
  /\ InitPairingDefaults
  /\ InitThreadDefaults
  /\ InitHistoryDefaults
  /\ InitStoreDefaults
  /\ InitAxisDefaults
  /\ InitDebugHookDefaults
  /\ InitWrapDefaults
  /\ InitPmapDefaults
  /\ InitDispatcherDefaults

NextMap ==
  \/ /\ ncalls = 0
     /\ \E args \in MapArgLists, kwargs \in MapKwArgs : batched_fun(args, kwargs)
  \/ /\ ncalls = 0
     /\ \E args \in MapArgLists, kwargs \in MapKwArgs : f_pmapped(args, kwargs)

\* SpecWrap follows jit(fun, static_argnums, device, backend, donate_argnums)
\* itself, for every value of the experimental_cpp_jit flag, every kind of
\* fun and every choice of device and backend.
FunKinds == {"function", "generator function", "not callable"}

Devices == {"None", "cpu:0"}

Backends == {"None", "cpu"}

InitWrap ==
  /\ static_argnums \in SUBSET Positions
  /\ declared_donate \in SUBSET Positions
  /\ static_argnums \cap declared_donate = {}
  /\ donate_argnums = rebase_donate_argnums(declared_donate, static_argnums)
  /\ InitGradDefaults
  /\ InitProcess
  /\ InitMapDefaults
  /\ InitBackendDefaults
  /\ InitDebugDefaults
  /\ InitOutputDefaults
  /\ InitTraceDefaults
  /\ InitPairingDefaults
  /\ InitThreadDefaults
  /\ InitHistoryDefaults
  /\ InitStoreDefaults
  /\ InitAxisDefaults
  /\ InitDebugHookDefaults
  /\ InitDispatcherDefaults
  /\ InitPmapDefaults
  /\ experimental_cpp_jit \in BOOLEAN
  /\ device \in Devices
  /\ backend \in Backends
  /\ fun_kind \in FunKinds
  /\ wrapper = NoWrapper

NextWrap == jit

SpecWrap == InitWrap /\ [][NextWrap]_vars

\* SpecDebug follows the updates of the debug_nans and debug_infs settings,
\* global and thread-local, for the three generations of the extension.
InitDebug ==
  /\ InitJitDefaults
  /\ InitGradDefaults
  /\ InitProcess
  /\ InitMapDefaults
  /\ InitBackendDefaults
  /\ jax_debug_nans = FALSE
  /\ jax_debug_infs = FALSE
  /\ xla_extension_version \in {11, 12, 13}
  /\ InitOutputDefaults
  /\ InitTraceDefaults
  /\ InitPairingDefaults
  /\ InitThreadDefaults
  /\ InitHistoryDefaults
  /\ InitStoreDefaults
  /\ InitAxisDefaults
  /\ InitDispatcherDefaults
  /\ InitPmapDefaults
  /\ InitWrapDefaults
  /\ InitDebugHookDefaults

NextDebug ==
  \/ \E val \in BOOLEAN : update_debug_nans(val)
  \/ \E val \in BOOLEAN : update_debug_infs(val)
  \/ \E t \in 1..MaxThreads, val \in BOOLEAN : set_thread_local_debug_nans(t, val)
  \/ \E t \in 1..MaxThreads, val \in BOOLEAN : set_thread_local_debug_infs(t, val)

SpecDebug == InitDebug /\ [][NextDebug]_vars

SpecMap == InitMap /\ [][NextMap]_vars

\* SpecPmap follows one call of a function wrapped by pmap, for every
\* out_axes the wrapper can be built with.
PmapOutAxes == {OutAxis(0), OutAxisNone, OutAxisTuple(<<0>>)}

PmapArgLists == UNION {[1..n -> {Leaf(o) : o \in {"x1", "v", "w", "m", "fn"}}] : n \in 0..MaxArgs}

InitPmap ==
  /\ InitJitDefaults
  /\ InitGradDefaults
  /\ InitProcess
  /\ InitMapDefaults
  /\ InitBackendDefaults
  /\ InitDebugDefaults
  /\ InitOutputDefaults
  /\ InitTraceDefaults
  /\ InitPairingDefaults
  /\ InitThreadDefaults
  /\ InitHistoryDefaults
  /\ InitStoreDefaults
  /\ InitAxisDefaults
  /\ InitDebugHookDefaults
  /\ InitWrapDefaults
  /\ InitDispatcherDefaults
  /\ out_axes \in PmapOutAxes

NextPmap ==
  /\ ncalls = 0
  /\ \E args \in PmapArgLists, kwargs \in MapKwArgs : f_pmapped(args, kwargs)

SpecPmap == InitPmap /\ [][NextPmap]_vars

\* ---- the C++ jit: every kind of executable and of output, the debug flags
\* set or not, and the three generations of the extension the code tells
\* apart (before the post_hook, with the post_hook and the Python wrapper,
\* with the post_hook only)
Executors == {"_execute_compiled", "_execute_trivial", "_execute_replicated"}

ExtensionVersions == {11, 12, 13}

\* the calls made: without arguments, with a float, with an array
CppArgLists == {<<>>, <<Leaf("x1")>>, <<Leaf("v")>>}

InitCpp ==
  /\ InitJitDefaults
  /\ InitGradDefaults
  /\ InitProcess
  /\ InitMapDefaults
  /\ executor \in Executors
  /\ device_array_outputs \in BOOLEAN
  /\ jax_debug_nans \in BOOLEAN
  /\ jax_debug_infs \in BOOLEAN
  /\ xla_extension_version \in ExtensionVersions
  /\ InitOutputDefaults
  /\ InitTraceDefaults
  /\ InitPairingDefaults
  /\ InitThreadDefaults
  /\ InitHistoryDefaults
  /\ InitStoreDefaults
  /\ InitAxisDefaults
  /\ InitDebugHookDefaults
  /\ InitWrapDefaults
  /\ InitPmapDefaults
  /\ InitDispatcherDefaults

NextCpp ==
  \/ EnterDisableJit
  \/ ExitDisableJit
  \/ /\ ncalls < MaxCalls
     /\ \E args \in CppArgLists : cache_miss(args, <<>>)
  \/ /\ ncalls < MaxCalls
     /\ \E args \in CppArgLists, nonfinite \in BOOLEAN, rerun_raises \in BOOLEAN :
          cpp_f_jitted(args, <<>>, nonfinite, rerun_raises)

SpecCpp == InitCpp /\ [][NextCpp]_vars

\* SpecPure follows the calls of one pure function wrapped by jit, through
\* _python_jit's f_jitted and through the C++ dispatcher, with equal and with
\* different arguments; nothing rebinds what fun reads.
PureArgLists == {<<>>, <<Leaf("x1")>>, <<Leaf("x2")>>, <<Leaf("v")>>,
                 <<Leaf("x1"), Leaf("x2")>>, <<Leaf("fn"), Leaf("x1")>>}

InitPure ==
  /\ static_argnums \in SUBSET (0..(MaxCacheArgs - 1))
  /\ declared_donate = {}
  /\ donate_argnums = rebase_donate_argnums(declared_donate, static_argnums)
  /\ InitGradDefaults
  /\ InitProcess
  /\ InitMapDefaults
  /\ executor \in Executors
  /\ device_array_outputs \in BOOLEAN
  /\ InitDebugDefaults
  /\ InitOutputDefaults
  /\ InitTraceDefaults
  /\ InitPairingDefaults
  /\ InitThreadDefaults
  /\ InitHistoryDefaults
  /\ InitStoreDefaults
  /\ InitAxisDefaults
  /\ InitDebugHookDefaults
  /\ InitWrapDefaults
  /\ InitPmapDefaults
  /\ InitDispatcherDefaults

NextPure ==
  \/ /\ ncalls < MaxCalls /\ last.op \in {"none", "jit"}
     /\ \E args \in PureArgLists, kwargs \in KwArgs : f_jitted(args, kwargs)
  \/ /\ ncalls < MaxCalls /\ last.op \in {"none", "cpp_jitted_f"}
     /\ \E args \in PureArgLists, kwargs \in KwArgs : cpp_jitted_f(args, kwargs)

SpecPure == InitPure /\ [][NextPure]_vars

\* ---- xla_computation with donated arguments, for functions with no, one
\* or two outputs that are scalars or arrays of shape (3,)
OutAvals == UNION {[1..n -> {"f32[]", "f32[3]"}] : n \in 0..MaxArgs}

InitDonate ==
  /\ static_argnums = {}
  /\ declared_donate \in SUBSET Positions
  /\ donate_argnums = rebase_donate_argnums(declared_donate, static_argnums)
  /\ InitGradDefaults
  /\ InitProcess
  /\ InitMapDefaults
  /\ InitBackendDefaults
  /\ InitDebugDefaults
  /\ out_avals \in OutAvals
  /\ InitTraceDefaults
  /\ InitPairingDefaults
  /\ InitThreadDefaults
  /\ InitHistoryDefaults
  /\ InitStoreDefaults
  /\ InitAxisDefaults
  /\ InitDebugHookDefaults
  /\ InitWrapDefaults
  /\ InitPmapDefaults
  /\ InitDispatcherDefaults

NextDonate ==
  /\ ncalls = 0
  /\ \E args \in ArgLists, kwargs \in KwArgs : computation_maker(args, kwargs)

SpecDonate == InitDonate /\ [][NextDonate]_vars

\* ---- nested transformation calls, each entering a trace and leaving it
\* by return or by exception
InitTrace ==
  /\ InitJitDefaults
  /\ InitGradDefaults
  /\ InitProcess
  /\ InitMapDefaults
  /\ InitBackendDefaults
  /\ InitDebugDefaults
  /\ InitOutputDefaults
  /\ InitTraceDefaults
  /\ InitPairingDefaults
  /\ InitThreadDefaults
  /\ InitHistoryDefaults
  /\ InitStoreDefaults
  /\ InitAxisDefaults
  /\ InitDebugHookDefaults
  /\ InitWrapDefaults
  /\ InitPmapDefaults
  /\ InitDispatcherDefaults

NextTrace ==
  \/ \E trace_type \in TraceTypes : EnterTracing(trace_type)
  \/ \E raised \in BOOLEAN : LeaveTracing(raised)

SpecTrace == InitTrace /\ [][NextTrace]_vars

\* ---- one call of a wrapped function with up to MaxTransforms transform
\* pairs attached, in every order of attachment
InitPairing ==
  /\ InitJitDefaults
  /\ InitGradDefaults
  /\ InitProcess
  /\ InitMapDefaults
  /\ InitBackendDefaults
  /\ InitDebugDefaults
  /\ InitOutputDefaults
  /\ InitTraceDefaults
  /\ InitPairingDefaults
  /\ InitThreadDefaults
  /\ InitHistoryDefaults
  /\ InitStoreDefaults
  /\ InitAxisDefaults
  /\ InitDebugHookDefaults
  /\ InitWrapDefaults
  /\ InitPmapDefaults
  /\ InitDispatcherDefaults

NextPairing ==
  \/ \E name \in TransformNames : wrap(name)
  \/ run_input_transform
  \/ call_base
  \/ run_output_transform

SpecPairing == InitPairing /\ [][NextPairing]_vars

\* ---- MaxThreads threads, each calling the compiled function again and again
InitThreads ==
  /\ InitJitDefaults
  /\ InitGradDefaults
  /\ InitProcess
  /\ InitMapDefaults
  /\ InitBackendDefaults
  /\ InitDebugDefaults
  /\ InitOutputDefaults
  /\ InitTraceDefaults
  /\ InitPairingDefaults
  /\ InitHistoryDefaults
  /\ InitStoreDefaults
  /\ InitAxisDefaults
  /\ InitDebugHookDefaults
  /\ InitWrapDefaults
  /\ InitPmapDefaults
  /\ InitDispatcherDefaults
  /\ threads = [t \in 1..MaxThreads |-> IdleThread]
  /\ cache_entries = {}

NextThreads ==
  \/ \E t \in 1..MaxThreads, args \in ThreadArgs : thread_lookup(t, args)
  \/ \E t \in 1..MaxThreads : thread_compile(t)
  \/ \E t \in 1..MaxThreads : thread_store(t)
  \/ \E t \in 1..MaxThreads : thread_return(t)

SpecThreads == InitThreads /\ [][NextThreads]_vars

\* ---- tree_unflatten and tree_flatten on every treedef of up to MaxArgs
\* arguments (leaves, pairs, None) with or without a keyword argument, and
\* every list of up to MaxLeaves leaves
TreeStructures ==
  {tree_structure(t) : t \in {Leaf("x1"), Tuple(<<"x1", "v">>), None}}

TreeDefs ==
  {[args |-> a, kwargs |-> k] :
     a \in UNION {[1..n -> TreeStructures] : n \in 0..MaxArgs},
     k \in {<<>>, <<tree_structure(Leaf("v"))>>}}

LeafLists == UNION {[1..n -> {"x1", "v"}] : n \in 0..MaxLeaves}

NextTree ==
  \E treedef \in TreeDefs, leaves \in LeafLists : unflatten_flatten(treedef, leaves)

SpecTree == InitPairing /\ [][NextTree]_vars

\* SpecNested follows one call of a jit-wrapped function made at top level or
\* from a function an enclosing jit is tracing (its arguments are then
\* tracers), with the first argument static or not: floats, arrays, tracers
\* and function objects, positional and by keyword.
NestedFirst == {Leaf("x1"), Leaf("v"), Leaf("fn"), Tuple(<<"x1", "fn">>)}

NestedSecond == {Leaf("x1"), Leaf("tr"), Leaf("fn"), Tuple(<<"tr", "v">>)}

NestedArgLists ==
  {<<>>} \cup {<<a>> : a \in NestedFirst}
         \cup {<<a, b>> : a \in NestedFirst, b \in NestedSecond}

NestedKwArgs == {<<>>, <<Leaf("tr")>>, <<Leaf("fn")>>}

InitNested ==
  /\ static_argnums \in SUBSET {0}
  /\ declared_donate = {}
  /\ donate_argnums = rebase_donate_argnums(declared_donate, static_argnums)
  /\ InitGradDefaults
  /\ InitProcess
  /\ InitMapDefaults
  /\ InitBackendDefaults
  /\ InitDebugDefaults
  /\ InitOutputDefaults
  /\ InitTraceDefaults
  /\ InitPairingDefaults
  /\ InitThreadDefaults
  /\ InitHistoryDefaults
  /\ InitStoreDefaults
  /\ InitAxisDefaults
  /\ InitDebugHookDefaults
  /\ InitWrapDefaults
  /\ InitPmapDefaults
  /\ InitDispatcherDefaults

NextNested ==
  \/ /\ ncalls = 0
     /\ \E args \in NestedArgLists, kwargs \in NestedKwArgs : f_jitted(args, kwargs)
  \/ /\ ncalls = 0
     /\ \E args \in NestedArgLists, kwargs \in NestedKwArgs : cache_miss(args, kwargs)

SpecNested == InitNested /\ [][NextNested]_vars

\* SpecStore follows up to MaxCalls calls of the jit wrappers (f_jitted and
\* cache_miss), of a vmap and a pmap wrapper and of xla_computation's
\* computation_maker, step by step from flatten_fun on, with arguments of
\* several structures and a fun that returns or raises.
StoreOps == {"f_jitted", "cache_miss", "batched_fun", "f_pmapped", "computation_maker"}

StoreArgLists == {<<>>, <<Leaf("x1")>>, <<Leaf("x1"), Leaf("x2")>>, <<Tuple(<<"v", "v">>)>>}

NextStore ==
  \/ \E op \in StoreOps, args \in StoreArgLists, kwargs \in KwArgs, fails \in BOOLEAN :
       flatten_fun(op, args, kwargs, fails)
  \/ call_flat_fun
  \/ out_tree_thunk

SpecStore == InitPairing /\ [][NextStore]_vars

\* SpecAxis follows the calls of make_jaxpr and xla_computation wrappers
\* built with axis_env None, one pair or two pairs, nested up to MaxNest deep,
\* their tracing returning or raising.
AxisEnvs == {<<>>, <<AxisPair("i", 4)>>, <<AxisPair("i", 4), AxisPair("j", 2)>>}

MakerOps == {"make_jaxpr", "xla_computation"}

NextAxis ==
  \/ \E op \in MakerOps, env \in AxisEnvs : maker_enter_with(op, env)
  \/ enter_context
  \/ trace_to_jaxpr_dynamic
  \/ \E raised \in BOOLEAN : leave_with(raised)
  \/ exit_context
  \/ maker_leave

SpecAxis == InitPairing /\ [][NextAxis]_vars

\* ------------------------------------------------------------- claims
JitOps == {"jit", "cpp_jit"}

\* the call went down the compile path of jit (it was not a direct call of fun)
CompilePath(call) == call.op \in JitOps /\ ~call.disabled

\* nothing of the compile path has happened in the call
NothingPrepared(call) ==
  /\ call.dyn_argnums = {} /\ call.fixed_args = <<>> /\ call.dyn_args = <<>>
  /\ call.args_flat = <<>> /\ call.donated_invars = <<>>
  /\ ~call.dispatched /\ ~call.compiled

\* C1: while disable_jit is active a call of the Python f_jitted returns
\* fun(*args, **kwargs) computed directly, with no argument-count check,
\* partitioning, flattening, donation vector, leaf validation or xla_call;
\* the flag is set exactly while a disable_jit context is open, and a call made
\* with the flag unset takes the compile path.
C1_DisableJitBypass ==
  /\ jax_disable_jit <=> (disable_stack # <<>>)
  /\ (last.op = "jit" /\ last.disabled) =>
       /\ last.status = "returned" /\ last.stage = "direct"
       /\ last.result = FunResult(last.args, last.kwargs, last.closure)
       /\ NothingPrepared(last)
       /\ cache = <<>> /\ compile_log = <<>>
  /\ (last.op = "jit" /\ ~last.disabled) =>
       last.stage \in {"argcount", "static", "check_arg", "xla_call"}

\* C1 witness: a disabled call with fewer arguments than the static positions
\* need, and with a leaf that is no JAX type, has returned fun's value
C1_Witness ==
  /\ last.op = "jit" /\ last.disabled
  /\ \E s \in static_argnums : s >= Len(last.args)
  /\ \E i \in 1..Len(last.args) : last.args[i] = Leaf("fn")
  /\ last.status = "returned"

\* The key the claim speaks of, from the call's own inputs: the values at the
\* declared static positions, the structure and abstract values of the other
\* arguments, which of them are declared donated, and device/backend.
ClaimKey(args, kwargs) ==
  LET dyn == {i \in 0..(Len(args) - 1) : i \notin static_argnums}
      sig(t) == [structure |-> tree_structure(t),
                 avals |-> [k \in 1..Len(t.leaves) |-> abstractify(t.leaves[k])]]
  IN [static |-> [i \in static_argnums |-> args[i + 1]],
      dynamic |-> [i \in dyn |-> sig(args[i + 1])],
      keywords |-> [k \in 1..Len(kwargs) |-> sig(kwargs[k])],
      donated |-> declared_donate \cap dyn,
      device |-> "None", backend |-> "None"]

LogKey(i) == ClaimKey(compile_log[i].args, compile_log[i].kwargs)

\* C2: the backend compiler runs at most once per key; a call that went
\* through xla_call has had its key compiled (so a call with a new shape or
\* static value cannot reuse another key's entry), each compilation adds one
\* cache entry, and a call that compiles observes fun's closure as it is at
\* the call.
C2_CacheIdentity ==
  /\ \A i, j \in 1..Len(compile_log) : LogKey(i) = LogKey(j) => i = j
  /\ last.op \in JitOps /\ last.stage = "xla_call" =>
       /\ \E i \in 1..Len(compile_log) : LogKey(i) = ClaimKey(last.args, last.kwargs)
       /\ last.compiled =>
            /\ compile_log[Len(compile_log)] = [args |-> last.args, kwargs |-> last.kwargs]
            /\ last.result.closure = last.closure
  /\ Len(compile_log) = Cardinality(DOMAIN cache)

\* C2 witness: a second call with the same shapes and other concrete values
\* has run without compiling, after the closure was rebound
C2_Witness ==
  /\ ncalls = 2 /\ Len(compile_log) = 1
  /\ last.op \in JitOps /\ last.stage = "xla_call" /\ ~last.compiled
  /\ compile_log[1].args # last.args
  /\ last.result.closure # last.closure

\* the same leaf object is passed at a donated position and at another,
\* dynamic and non-donated, position
AliasedDonation(call) ==
  \E i \in declared_donate, j \in 0..(Len(call.args) - 1) :
    /\ i < Len(call.args) /\ j # i
    /\ j \notin declared_donate /\ j \notin static_argnums
    /\ \E a \in 1..Len(call.args[i + 1].leaves), b \in 1..Len(call.args[j + 1].leaves) :
         call.args[i + 1].leaves[a] = call.args[j + 1].leaves[b]

\* C3: a jit call passing the same leaf object at a donated and at a second,
\* non-donated position is rejected with a usage error before xla_call.
C3_AliasedDonationRejected ==
  (CompilePath(last) /\ AliasedDonation(last)) =>
     (last.status = "raised" /\ ~last.dispatched)

\* C4: a jit call (not disabled) or a pmap call with a static position at or
\* beyond the number of positional arguments raises ValueError naming the
\* static positions and the number of arguments, before any partitioning,
\* flattening or dispatch.
C4_StaticArgCount ==
  ((CompilePath(last) \/ last.op = "pmap") /\
   \E s \in static_argnums : s >= Len(last.args)) =>
     /\ last.status = "raised" /\ last.exc = "ValueError"
     /\ last.stage = "argcount"
     /\ last.msg.static_argnums = static_argnums
     /\ last.msg.nargs = Len(last.args)
     /\ "len(args)" \in last.msg.named
     /\ last.msg.named \cap {"static_argnums", "static_broadcasted_argnums"} # {}
     /\ NothingPrepared(last)

\* C4 witness: a jit call with one argument and static position 1 has raised
C4_Witness ==
  /\ last.op = "jit" /\ ~last.disabled
  /\ 1 \in static_argnums /\ Len(last.args) = 1
  /\ last.exc = "ValueError"

\* C5: a jit call that supplies no positional argument at some declared
\* donated position raises ValueError before dispatch.
C5_DonatedArgCount ==
  (CompilePath(last) /\ \E d \in declared_donate : d >= Len(last.args)) =>
     (last.status = "raised" /\ last.exc = "ValueError" /\ ~last.dispatched)

\* the donation vector the claim describes, from the declared positions:
\* the leaves of the dynamic positional arguments in order, True for those of
\* a declared donated argument, then the keyword leaves, False
RECURSIVE ExpectedDonation(_, _, _)
ExpectedDonation(args, kwargs, i) ==
  IF i >= Len(args) THEN [k \in 1..Len(FlattenSeq(kwargs)) |-> FALSE]
  ELSE (IF i \in static_argnums THEN <<>>
        ELSE [k \in 1..Len(args[i + 1].leaves) |-> (i \in declared_donate)])
       \o ExpectedDonation(args, kwargs, i + 1)

\* C6: in every jit, pmap and xla_computation call that reaches dispatch the
\* donation vector has one boolean per flattened dynamic leaf (positional
\* leaves, then keyword leaves), True exactly for the leaves of a donated
\* positional argument, and all False when nothing is declared donated.
C6_DonationVector ==
  (last.op \in JitOps \cup {"pmap", "xla_computation"} /\ last.dispatched) =>
     /\ Len(last.donated_invars) = Len(last.args_flat)
     /\ last.args_flat = FlattenSeq(last.dyn_args) \o FlattenSeq(last.kwargs)
     /\ last.dyn_args = Pick(last.args, {i \in 0..(Len(last.args) - 1) : i \notin static_argnums})
     /\ last.donated_invars = ExpectedDonation(last.args, last.kwargs, 0)
     /\ declared_donate = {} =>
          \A k \in 1..Len(last.donated_invars) : ~last.donated_invars[k]

\* C6 witness: a dispatched jit call with a static argument, a donated tuple
\* of two leaves after it and a keyword argument
C6_Witness ==
  /\ last.op = "jit" /\ last.dispatched
  /\ static_argnums = {0} /\ declared_donate = {1}
  /\ last.donated_invars = <<TRUE, TRUE, FALSE>>

GradOps == {"value_and_grad", "grad"}

DiffOps == GradOps \cup {"jacrev"}

\* the output is an array of shape ()
ScalarArray(out) ==
  /\ out.node = "leaf"
  /\ abstractify(out.leaves[1]) \in {"f32[]", "c64[]", "i32[]", "bool[]", "float0[]"}

\* the arguments argnums selects in a call
SelectedArgs(call) == Pick(call.args, argnums_set(argnums))

\* C7: value_and_grad(fun) and grad(fun) raise the TypeError "Gradient only
\* defined for scalar-output functions" whenever the output of fun is not an
\* array of shape (), and do not call the pullback then; when they return,
\* the output was a scalar and the gradient has, for every selected argument,
\* that argument's structure and, leaf by leaf, that argument's shapes.
C7_ScalarOutput ==
  last.op \in GradOps =>
    /\ (last.fun_called /\ ~ScalarArray(last.ans)) =>
         /\ last.status = "raised" /\ last.exc = "TypeError"
         /\ last.stage = "check_scalar"
         /\ last.msg.text = "Gradient only defined for scalar-output functions"
         /\ ~last.pullback_called
    /\ last.status = "returned" =>
         /\ last.fun_called /\ ScalarArray(last.ans) /\ last.pullback_called
         /\ last.result.grad = last.g
         /\ last.g.single = argnums.is_int
         /\ Len(last.g.trees) = Len(SelectedArgs(last))
         /\ \A k \in 1..Len(last.g.trees) :
              /\ last.g.trees[k].node = SelectedArgs(last)[k].node
              /\ Len(last.g.trees[k].leaves) = Len(SelectedArgs(last)[k].leaves)
              /\ \A j \in 1..Len(last.g.trees[k].leaves) :
                   last.g.trees[k].leaves[j].shape = Shape(SelectedArgs(last)[k].leaves[j])

\* C7 witness: grad of a function whose output has shape (1,) has raised
\* after fun ran
C7_Witness ==
  /\ last.op = "grad" /\ last.fun_called
  /\ last.ans = Leaf("w")
  /\ last.status = "raised"

\* the input dtype rule of the claim
LegalInput(x) ==
  /\ abstractify(x) # "TypeError"
  /\ IF holomorphic THEN _dtype(x) = "complex64"
     ELSE allow_int \/ _dtype(x) \in {"float32", "complex64"}

\* C8: in value_and_grad, grad and jacrev every leaf of the arguments argnums
\* selects is checked before fun is traced: if some leaf is illegal (not
\* complex with holomorphic=True; neither floating nor complex with
\* holomorphic=False and allow_int=False) the call raises TypeError and fun
\* and the pullback are never invoked; if every leaf is legal (integer leaves
\* are with allow_int=True and holomorphic=False) fun is invoked.
C8_InputDtype ==
  (last.op \in DiffOps /\ max_argnum(argnums) < Len(last.args)) =>
    LET leaves == FlattenSeq(SelectedArgs(last))
    IN /\ (\E i \in 1..Len(leaves) : ~LegalInput(leaves[i])) =>
            /\ last.status = "raised" /\ last.exc = "TypeError"
            /\ last.stage = "input_dtype"
            /\ ~last.fun_called /\ ~last.pullback_called
       /\ (\A i \in 1..Len(leaves) : LegalInput(leaves[i])) => last.fun_called

\* C8 witness: jacrev with the default options has rejected a tuple argument
\* for its second, integer leaf
C8_Witness ==
  /\ last.op = "jacrev" /\ ~holomorphic /\ ~allow_int
  /\ argnums = Index(0) /\ Len(last.args) >= 1
  /\ last.args[1] = Tuple(<<"x1", "n">>)
  /\ last.status = "raised" /\ ~last.fun_called

\* the scalar output's dtype is the one the wrapper's mode takes
AcceptedOutput(out) ==
  IF holomorphic THEN _dtype(out.leaves[1]) = "complex64"
  ELSE _dtype(out.leaves[1]) = "float32"

\* C9 (as amended): value_and_grad/grad accept a scalar output whose dtype is
\* floating when holomorphic=False and complex when holomorphic=True, and
\* raise TypeError for every other output dtype; the dtype is checked after
\* the scalar-shape check and before the pullback is called.
C9_OutputDtype ==
  (last.op \in GradOps /\ last.fun_called) =>
    /\ (ScalarArray(last.ans) /\ AcceptedOutput(last.ans)) =>
         last.status = "returned" /\ last.pullback_called
    /\ (ScalarArray(last.ans) /\ ~AcceptedOutput(last.ans)) =>
         /\ last.status = "raised" /\ last.exc = "TypeError"
         /\ last.stage = "output_dtype"
         /\ ~last.pullback_called
    /\ ~ScalarArray(last.ans) => last.stage = "check_scalar"

\* C9 as stated: value_and_grad/grad accept a scalar output exactly when its
\* dtype is floating or complex.
C9_Original ==
  (last.op \in GradOps /\ last.fun_called /\ ScalarArray(last.ans)) =>
    (last.status = "returned" <=>
       _dtype(last.ans.leaves[1]) \in {"float32", "complex64"})

\* C9 witness: grad with holomorphic=False has rejected a complex scalar
\* output after fun ran, without calling the pullback
C9_Witness ==
  /\ last.op = "grad" /\ ~holomorphic
  /\ last.fun_called /\ last.ans = Leaf("z")
  /\ last.status = "raised" /\ last.stage = "output_dtype"

\* the tangent dtype the claim associates with a primal leaf
ExpectedTangentDtype(p) ==
  IF _dtype(p) \in {"float32", "complex64"} THEN _dtype(p) ELSE "float0"

\* C10: jvp raises TypeError if primals or tangents is not a tuple or list;
\* else TypeError if their tree structures differ; else, if some leaf has a
\* tangent of another dtype than the primal's tangent dtype or of another
\* shape than the primal's, TypeError for the dtype and ValueError for the
\* shape, the first offending leaf deciding (its dtype before its shape); in
\* all these cases fun is never called, and it is called when none holds.
C10_JvpValidation ==
  last.op = "jvp" =>
    LET p == last.primals
        t == last.tangents
        containers == p.kind \in {"tuple", "list"} /\ t.kind \in {"tuple", "list"}
        same_tree == p.kind = t.kind /\ Structures(p.items) = Structures(t.items)
        ps == FlattenSeq(p.items)
        ts == FlattenSeq(t.items)
        dtype_bad == {i \in 1..Len(ps) : _dtype(ts[i]) # ExpectedTangentDtype(ps[i])}
        shape_bad == {i \in 1..Len(ps) : Shape(ts[i]) # Shape(ps[i])}
    IN /\ ~containers =>
            last.status = "raised" /\ last.exc = "TypeError" /\ ~last.fun_called
       /\ (containers /\ ~same_tree) =>
            last.status = "raised" /\ last.exc = "TypeError" /\ ~last.fun_called
       /\ (containers /\ same_tree /\ dtype_bad \cup shape_bad # {}) =>
            /\ last.status = "raised" /\ ~last.fun_called
            /\ last.exc \in {"TypeError", "ValueError"}
            /\ last.exc = "TypeError" <=>
                 \E i \in dtype_bad : \A j \in shape_bad : i <= j
       /\ (containers /\ same_tree /\ dtype_bad \cup shape_bad = {}) =>
            last.status = "returned" /\ last.fun_called

\* C10 witness: jvp has raised ValueError for a first leaf of another shape
\* although the second leaf's tangent has the wrong dtype
C10_Witness ==
  /\ last.op = "jvp" /\ last.exc = "ValueError" /\ ~last.fun_called
  /\ last.primals = Container("tuple", <<Leaf("x1"), Leaf("x1")>>)
  /\ last.tangents = Container("tuple", <<Leaf("v"), Leaf("n")>>)

\* C11: the pullback vjp returns raises TypeError, without running the
\* backward pass, for every cotangent whose tree structure differs from the
\* primal output's or that has a leaf whose dtype is not the dtype of the
\* corresponding leaf of the primal output; it runs the backward pass only
\* when the structure and every leaf's dtype match.
C11_CotangentChecked ==
  last.op = "vjp_py" =>
    LET matches ==
          /\ tree_structure(last.ct) = tree_structure(last.out)
          /\ \A k \in 1..Len(last.ct.leaves) :
               _dtype(last.ct.leaves[k]) = _dtype(last.out.leaves[k])
    IN /\ last.backward_called <=> matches
       /\ ~matches => (last.status = "raised" /\ last.exc = "TypeError")

\* ---- the mapped axis size
MapOps == {"vmap", "pmap"}

\* the call got as far as _mapped_axis_size
AxisSizeCalled(call) == call.op \in MapOps /\ call.axis.why # "not called"

\* the flat positions whose axis specification is not None
MappedLeaves(call) ==
  {i \in 1..Len(call.args_flat) : call.in_axes_flat[i] # <<>>}

\* the mapped axis of leaf i exists: -rank <= axis < rank
AxisInRange(call, i) ==
  LET rank == Len(Shape(call.args_flat[i]))
      d == call.in_axes_flat[i][1]
  IN -rank <= d /\ d < rank

\* shape[axis] of leaf i, for an axis in range
SizeAlongAxis(call, i) ==
  LET shape == Shape(call.args_flat[i])
      d == call.in_axes_flat[i][1]
  IN IF d >= 0 THEN shape[d + 1] ELSE shape[Len(shape) + d + 1]

MappedSizes(call) == {SizeAlongAxis(call, i) : i \in MappedLeaves(call)}

InconsistentSizes(call) ==
  /\ AxisSizeCalled(call)
  /\ \A i \in MappedLeaves(call) : AxisInRange(call, i)
  /\ Cardinality(MappedSizes(call)) > 1

\* C12: every vmap or pmap call whose mapped leaves (keyword arguments are
\* mapped on axis 0) have more than one distinct size along their mapped axes
\* fails before batching/dispatch with the inconsistent-sizes ValueError that
\* tells the size of every argument, with or without keyword arguments and
\* with or without nested containers.
C12_InconsistentSizes ==
  InconsistentSizes(last) =>
    /\ last.status = "raised"
    /\ last.exc = "ValueError"
    /\ last.axis.why = "inconsistent sizes"
    /\ ~last.dispatched
    /\ \A i \in MappedLeaves(last) : last.axis.sizes[i] = SizeAlongAxis(last, i)

\* C13: _mapped_axis_size returns s exactly when the sizes shape[axis] of the
\* leaves with a non-None axis form the singleton {s}; it raises the
\* 'must have at least one non-None value in in_axes' ValueError when no leaf
\* has a non-None axis; and it raises a ValueError naming the argument
\* index, its rank and the axis when a mapped axis is out of range.
C13_MappedAxisSize ==
  AxisSizeCalled(last) =>
    LET mapped == MappedLeaves(last)
        bad == {i \in mapped : ~AxisInRange(last, i)}
    IN /\ \A s \in 0..3 :
            (last.axis.exc = "none" /\ last.axis.size = s)
              <=> (bad = {} /\ MappedSizes(last) = {s})
       /\ last.axis.exc = "none" => last.axis.size \in 0..3
       /\ mapped = {} =>
            /\ last.status = "raised" /\ last.exc = "ValueError"
            /\ last.axis.why = "no mapped axis"
       /\ bad # {} =>
            /\ last.status = "raised" /\ last.exc = "ValueError"
            /\ last.axis.why = "rank"
            /\ last.axis.arg + 1 \in bad
            /\ last.axis.rank = Len(Shape(last.args_flat[last.axis.arg + 1]))
            /\ last.axis.axis = last.in_axes_flat[last.axis.arg + 1][1]

\* a negative axis was resolved, an empty set of mapped axes was refused and
\* an axis out of range was refused
C13_Witness ==
  /\ last.op = "vmap"
  /\ last.axis.exc = "none" /\ last.axis.size = 1
  /\ \E i \in MappedLeaves(last) : last.in_axes_flat[i][1] < 0

C13_WitnessNone ==
  AxisSizeCalled(last) /\ MappedLeaves(last) = {} /\ last.axis.why = "no mapped axis"

C13_WitnessRank ==
  AxisSizeCalled(last) /\ last.axis.why = "rank" /\ last.axis.arg = 1

\* ---- the C++ jit
\* C14: cache_miss returns fast-path data only when the most recent cache
\* entry exists, is xla._execute_compiled and every flat output is a plain
\* device array; in every other case the fast-path data is None; and the
\* output it returns is the same whether or not fast-path data is returned.
C14_FastPath ==
  (last.op = "cpp_jit" /\ last.status = "returned") =>
    /\ last.fastpath <=> /\ last.compiled
                         /\ executor = "_execute_compiled"
                         /\ device_array_outputs
    /\ last.result = xla_call_out(last.key, last.args_flat)

\* fast-path data was returned, and was refused for each of the three reasons
C14_Witness ==
  /\ last.op = "cpp_jit" /\ last.status = "returned" /\ ncalls = MaxCalls
  /\ ~last.fastpath /\ ~last.compiled
  /\ executor = "_execute_compiled" /\ device_array_outputs

C14_WitnessFast == last.op = "cpp_jit" /\ last.fastpath

C14_WitnessExecutor ==
  /\ last.op = "cpp_jit" /\ last.status = "returned" /\ last.compiled
  /\ executor = "_execute_trivial" /\ device_array_outputs /\ ~last.fastpath

\* C15: with debug_nans or debug_infs set and jit not disabled, whenever the
\* check of a compiled call's outputs detects a non-finite value, cache_miss
\* is re-invoked exactly once with the original arguments and the call ends
\* by raising: the caller never gets a normally returned result.
C15_NanRerunRaises ==
  (/\ last.op = "cpp_f_jitted" /\ ~last.disabled
   /\ (jax_debug_nans \/ jax_debug_infs)
   /\ last.detected) =>
    /\ last.reruns = 1
    /\ last.status = "raised"

\* ---- unusable donations
\* the number of elements of s that satisfy the test
CountAval(s, a) == Cardinality({i \in 1..Len(s) : s[i] = a})

DonatedAvals(call) ==
  SelectWhere([i \in 1..Len(call.args_flat) |-> abstractify(call.args_flat[i])],
              call.donated_invars)

\* how many donated buffers of shape and dtype a find no output to alias
Unusable(call, a) ==
  LET d == CountAval(DonatedAvals(call), a)
      o == CountAval(out_avals, a)
  IN IF d > o THEN d - o ELSE 0

\* C16: in xla_computation, when a donated buffer cannot be aliased to an
\* output a warning listing the unusable donated buffers is emitted and the
\* computation is still built and returned; no warning is emitted when every
\* donated buffer is aliased or nothing is donated.
C16_DonationWarning ==
  (last.op = "xla_computation" /\ last.stage = "build") =>
    /\ last.status = "returned"
    /\ last.result = Built(last.args, last.kwargs, last.closure)
    /\ \A a \in {"f32[]", "f32[3]"} :
         CountAval(last.warning, a) = Unusable(last, a)
    /\ Len(last.warning) =
         Unusable(last, "f32[]") + Unusable(last, "f32[3]")

\* one of two donated arrays was aliased and the other one was listed
C16_Witness ==
  /\ last.op = "xla_computation" /\ last.stage = "build"
  /\ last.warning = <<"f32[3]">>
  /\ CountAval(DonatedAvals(last), "f32[3]") = 2

C16_WitnessNoWarning ==
  /\ last.op = "xla_computation" /\ last.stage = "build"
  /\ last.warning = <<>> /\ DonatedAvals(last) # <<>>

\* ---- the trace stack
\* C17: every entry into Tracing pushes exactly one trace level and every
\* exit, by return or by exception, pops exactly that level: the trace stack
\* holds the levels of the transformation calls in progress, in order (so it is
\* empty again when the outermost call has ended), and the innermost trace
\* is the most recently pushed one.
C17_TraceStackBalance ==
  /\ Len(trace_stack) = Len(frames)
  /\ \A i \in 1..Len(frames) : trace_stack[i] = frames[i].main
  /\ \A i \in 1..Len(trace_stack) :
       /\ trace_stack[i].level = i - 1
       /\ trace_stack[i].serial <= trace_stack[Len(trace_stack)].serial

\* nested calls were made, the last of which raised, and none is in progress
C17_Witness ==
  /\ npush = MaxPushes /\ frames = <<>> /\ trace_stack = <<>>
  /\ last.op = "leave" /\ last.status = "raised"

C17_WitnessNested ==
  /\ Len(trace_stack) = MaxNest /\ last.op = "enter"
  /\ trace_stack[1].serial + 1 < trace_stack[MaxNest].serial

\* ---- transform pairing
\* C18: one invocation of a wrapped function carrying N stacked transform
\* pairs runs the base callable exactly once, after all N input transforms
\* and before any output transform.
C18_TransformPairing ==
  LET n == Len(transforms)
      ins == EventsOf(events, "in")
      base == EventsOf(events, "base")
      outs == EventsOf(events, "out")
  IN /\ Cardinality(base) <= 1
     /\ Len(events) >= 2 * n + 1 =>
          /\ Cardinality(base) = 1
          /\ Cardinality(ins) = n /\ Cardinality(outs) = n
          /\ Len(events) = 2 * n + 1
     /\ \A b \in base :
          /\ Cardinality(ins) = n
          /\ \A i \in ins : i < b
          /\ \A o \in outs : b < o
     /\ outs # {} => base # {}

\* a call through five transform pairs has ended
C18_Witness ==
  /\ Len(transforms) = MaxTransforms
  /\ Len(events) = 2 * MaxTransforms + 1
  /\ events[MaxTransforms + 1].kind = "base"

C18_WitnessNone == transforms = <<>> /\ events = <<Event("base", "fun")>>

\* ---- racing compilations
\* C19: under every interleaving of compilations of the same cache key by
\* different threads the cache holds at most one entry per key in every
\* state, exactly one for the key of a caller that has ended, and every
\* caller has received an executable equivalent to the entry retained.
C19_RacingCompilations ==
  /\ \A e1 \in cache_entries, e2 \in cache_entries : e1.key = e2.key => e1 = e2
  /\ \A t \in DOMAIN threads :
       threads[t].pc = "done" =>
         \E e \in cache_entries :
           /\ e.key = threads[t].key
           /\ Equivalent(threads[t].got, e.exe)

\* two threads compiled the same key, each received its own executable, and
\* the entry retained is the one of the first thread, which stored last
C19_Witness ==
  /\ threads # <<>>
  /\ threads[1].pc = "done" /\ threads[2].pc = "done"
  /\ threads[1].key = threads[2].key
  /\ threads[1].got.by = 1 /\ threads[2].got.by = 2
  /\ \E e \in cache_entries : e.exe.by = 1

\* ---- flatten and unflatten
\* C20: for every treedef t and every list L of leaves whose length is the
\* leaf count of t, flatten(unflatten(t, L)) is (L, t); unflatten fails
\* with a structure-mismatch error when the length of L is not the leaf
\* count of t.
C20_FlattenRoundTrip ==
  last.op = "tree_unflatten" =>
    LET n == NumLeaves(last.treedef.args) + NumLeaves(last.treedef.kwargs)
    IN /\ Len(last.leaves) = n =>
            /\ last.status = "returned"
            /\ last.flat = [leaves |-> last.leaves, treedef |-> last.treedef]
       /\ Len(last.leaves) # n =>
            /\ last.status = "raised" /\ last.exc = "ValueError"

\* a treedef with a pair, None and a keyword argument was rebuilt from three
\* leaves and flattened again
C20_Witness ==
  /\ last.op = "tree_unflatten" /\ last.status = "returned"
  /\ Len(last.leaves) = 3 /\ last.leaves[1] # last.leaves[2]
  /\ Len(last.treedef.args) = 2 /\ Len(last.treedef.kwargs) = 1
  /\ last.treedef.args[2].num_leaves = 0

C20_WitnessTooMany ==
  /\ last.op = "tree_unflatten" /\ last.status = "raised"
  /\ Len(last.leaves) > NumLeaves(last.treedef.args) + NumLeaves(last.treedef.kwargs)

\* ------------------------------------------------------------- C21
JacOps == {"jacfwd", "jacrev"}

\* jacfwd(f)(x) and jacrev(f)(x) have both returned, for the same f and x
BothJacobians ==
  /\ last.op \in JacOps /\ previous.op \in JacOps /\ last.op # previous.op
  /\ last.args = previous.args /\ last.kwargs = previous.kwargs
  /\ last.status = "returned" /\ previous.status = "returned"
  /\ last.ans = previous.ans

\* the shapes of the leaves of a Jacobian, in its structure
JacobianShapes(jac) ==
  [single |-> jac.single,
   trees |-> [k \in 1..Len(jac.trees) |->
     [i \in 1..Len(jac.trees[k]) |->
        [node |-> jac.trees[k][i].node,
         leaves |-> [j \in 1..Len(jac.trees[k][i].leaves) |->
                       jac.trees[k][i].leaves[j].shape]]]]]

\* Y with every leaf replaced by a copy of X's structure, every leaf of the
\* output leaf's shape followed by the input leaf's
ShapeLaw(call) ==
  LET y == call.ans
      X == call.dyn_args
      jac == call.result.grad
  IN /\ tree_structure(call.result.value) = tree_structure(y)
     /\ jac.single = argnums.is_int
     /\ Len(jac.trees) = Len(y.leaves)
     /\ \A k \in 1..Len(y.leaves) :
          /\ Len(jac.trees[k]) = Len(X)
          /\ \A i \in 1..Len(X) :
               /\ tree_structure(jac.trees[k][i]) = tree_structure(X[i])
               /\ \A j \in 1..Len(X[i].leaves) :
                    jac.trees[k][i].leaves[j].shape
                      = Shape(y.leaves[k]) \o Shape(X[i].leaves[j])

C21_WitnessTrees ==
  /\ BothJacobians
  /\ last.args = <<Tuple(<<"x1", "v">>), Leaf("v")>> /\ last.ans = Tuple(<<"u", "x1">>)
  /\ ~argnums.is_int

\* the two front-ends do not accept the same calls: a complex argument of a
\* real-valued function is taken by jacrev and refused by jacfwd
C21_WitnessOnlyJacrev ==
  /\ last.op = "jacfwd" /\ previous.op = "jacrev"
  /\ last.args = previous.args
  /\ previous.status = "returned" /\ last.status = "raised"

\* ------------------------------------------------------------- C22
PureJitOps == {"jit", "cpp_jitted_f"}

\* every leaf of the call's dynamic arguments is a valid JAX type
ValidArrayArgs(call) ==
  LET part == jit_partition(static_argnums, call.args)
      leaves == FlattenSeq(part.dyn_args) \o FlattenSeq(call.kwargs)
  IN /\ jit_enough_args(static_argnums, donate_argnums, call.args)
     /\ part.exc = "none"
     /\ \A i \in 1..Len(leaves) : _check_arg(leaves[i])

\* C22: a call of jit(fun) with valid array arguments returns, and what it
\* returns is what fun(*args, **kwargs) returns, on the call that compiles, on
\* every later call, and on the calls the C++ fast path serves.
C22_JitTransparency ==
  last.op \in PureJitOps =>
    /\ ValidArrayArgs(last) => last.status = "returned"
    /\ last.status = "returned" =>
         last.result = FunResult(last.args, last.kwargs, closure)

\* the first call: a cache miss that compiles
C22_Witness ==
  /\ last.op \in PureJitOps /\ last.status = "returned"
  /\ last.compiled /\ ncalls = 1

\* a later call with other values of the same abstract value: a cache hit
C22_WitnessHit ==
  /\ last.op = "jit" /\ last.status = "returned"
  /\ ~last.compiled /\ compile_log # <<>>
  /\ compile_log[1].args # last.args

\* a later call served by the C++ fast path, with a static argument
C22_WitnessFast ==
  /\ last.op = "cpp_jitted_f" /\ last.stage = "fastpath"
  /\ last.fixed_args # <<>>

\* ------------------------------------------------------------- C23
\* C23: a call of a pmapped function whose out_axes holds None is rejected
\* with NotImplementedError before it is dispatched to pxla.xla_pmap.
C23_NoneOutAxesRejected ==
  (last.op = "pmap" /\ out_axes.node = "None") =>
    /\ last.status = "raised"
    /\ ~last.dispatched

\* ------------------------------------------------------------- C24
\* C24: jit(fun, device=d, backend=b) with d and b both given raises
\* ValueError while fun is wrapped, whether experimental_cpp_jit selects
\* _cpp_jit or _python_jit.
C24_DeviceAndBackend ==
  (wrapper # NoWrapper /\ _check_callable(fun_kind)
     /\ device # "None" /\ backend # "None") =>
    /\ wrapper.status = "raised"
    /\ wrapper.exc = "ValueError"

C26_WitnessOldExtension ==
  /\ ~debug_hooks_registered /\ jax_debug_nans
  /\ global_post_hook = "None"

SlowPathSteps(call) ==
  [status |-> call.status, exc |-> call.exc, stage |-> call.stage,
   msg |-> call.msg, dyn_argnums |-> call.dyn_argnums,
   fixed_args |-> call.fixed_args, dyn_args |-> call.dyn_args,
   args_flat |-> call.args_flat, in_tree |-> call.in_tree,
   donated_invars |-> call.donated_invars, dispatched |-> call.dispatched,
   key |-> call.key, result |-> call.result]

\* C27: with jit not disabled, _cpp_jit.cache_miss and _python_jit.f_jitted
\* do the same on the same arguments: the same count check, partitioning,
\* flattening, donation vector and leaf validation, the same call of xla_call,
\* and the same error raised or the same output returned.
C27_SlowPathAgreement ==
  /\ (last.op = "jit" /\ last.stage # "direct") =>
       SlowPathSteps(last) = SlowPathSteps(cache_miss_call(last.args, last.kwargs))
  /\ (last.op = "cpp_jit" /\ ~jax_disable_jit) =>
       SlowPathSteps(last) = SlowPathSteps(f_jitted_call(last.args, last.kwargs))

\* a call of cache_miss with a static and a donated argument went to xla_call
C27_Witness ==
  /\ last.op = "cpp_jit" /\ ~jax_disable_jit
  /\ last.dispatched /\ last.fixed_args # <<>>
  /\ \E i \in 1..Len(last.donated_invars) : last.donated_invars[i]

\* a call of f_jitted was refused at a leaf
C27_WitnessRaised ==
  /\ last.op = "jit" /\ last.stage = "check_arg" /\ last.exc = "TypeError"

\* ------------------------------------------------------------- C28
\* the frames the calls in progress hold, outermost call first
RECURSIVE HeldFrames(_)
HeldFrames(ms) ==
  IF ms = <<>> THEN <<>>
  ELSE SubSeq(Head(ms).env, 1, Head(ms).entered) \o HeldFrames(Tail(ms))

\* C28: make_jaxpr and xla_computation push one axis-environment frame per
\* (name, size) pair of axis_env, in order, before tracing, and pop them all,
\* the last pushed first, when tracing ends by returning or by raising: while
\* a call traces the environment is the one it found followed by its pairs,
\* while it unwinds what is left of them is a prefix of its pairs, and after
\* the call the environment is the one before it; axis_env=None pushes nothing.
C28_ScopedAxisEnv ==
  /\ axis_env = HeldFrames(makers)
  /\ \A n \in 1..Len(makers) :
       /\ makers[n].pc = "tracing" => makers[n].entered = Len(makers[n].env)
       /\ makers[n].before = HeldFrames(SubSeq(makers, 1, n - 1))
  /\ finished # NoMaker => finished.after = finished.before

\* a nested call with two pairs has raised and left the environment of the
\* call around it
C28_Witness ==
  /\ finished # NoMaker /\ finished.raised /\ Len(finished.env) = 2
  /\ finished.before # <<>>
  /\ finished.after = finished.before /\ axis_env = finished.before

\* a call built with axis_env=None traces with nothing pushed
C28_WitnessNone ==
  /\ Len(makers) = 1 /\ makers[1].env = <<>> /\ makers[1].pc = "tracing"
  /\ axis_env = <<>>

\* ------------------------------------------------------------- C29
\* the positions of a call's arguments that are not static
DynamicPositions(call) == (0..(Len(call.args) - 1)) \ static_argnums

\* the leaves of the dynamic arguments and of the keyword arguments
DynamicLeaves(call) ==
  FlattenSeq(Pick(call.args, DynamicPositions(call))) \o FlattenSeq(call.kwargs)

\* a leaf jit takes: an array, a scalar, or a tracer
ValidLeaf(x) == x \in {"x1", "x2", "v", "w", "m", "u", "z", "n", "b", "tr"}

\* the call got as far as flattening its dynamic arguments
Flattened(call) == call.stage \in {"check_arg", "xla_call"}

\* C29: in a jit call the static arguments are taken out before flattening
\* and every flattened dynamic leaf is validated before dispatch: an invalid
\* leaf ends the call with TypeError and xla_call is not invoked; a static
\* argument is not validated (a hashable object such as a function is
\* accepted), tracers passed by an enclosing jit are valid leaves.
C29_LeafValidation ==
  (last.op \in {"jit", "cpp_jit"} /\ last.stage # "direct") =>
    /\ Flattened(last) =>
         /\ last.args_flat = DynamicLeaves(last)
         /\ last.fixed_args = Pick(last.args, static_argnums)
    /\ (Flattened(last) /\ \E i \in 1..Len(DynamicLeaves(last)) :
                              ~ValidLeaf(DynamicLeaves(last)[i])) =>
         /\ last.status = "raised" /\ last.exc = "TypeError"
         /\ last.stage = "check_arg" /\ ~last.dispatched
    /\ (Flattened(last) /\ \A i \in 1..Len(DynamicLeaves(last)) :
                              ValidLeaf(DynamicLeaves(last)[i])) =>
         last.dispatched /\ last.status = "returned"
    /\ last.dispatched => Flattened(last)

\* a function object passed as the static argument, next to a tracer: the
\* call is dispatched
C29_Witness ==
  /\ last.op \in {"jit", "cpp_jit"} /\ last.dispatched
  /\ last.fixed_args = <<Leaf("fn")>>
  /\ \E i \in 1..Len(last.args_flat) : IsTracer(last.args_flat[i])

\* a function object passed as a dynamic argument: TypeError, no dispatch
C29_WitnessInvalid ==
  /\ last.op = "jit" /\ last.stage = "check_arg" /\ ~last.dispatched
  /\ "fn" \in {last.args_flat[i] : i \in 1..Len(last.args_flat)}
  /\ static_argnums = {0}

\* the evaluations of out_tree() the call in progress, or the last call, made
StoreReads == {flat_call.reads[i] : i \in 1..Len(flat_call.reads)}

\* C30: in f_jitted, cache_miss, batched_fun, f_pmapped and computation_maker
\* every evaluation of out_tree(), direct or by the deferred out_axes thunk,
\* finds the store written in the same call and gives the structure of what
\* fun returns for this call's arguments; the store was written by running
\* the flattened function, or, when xla_call or xla_pmap kept the traced
\* function under the same key, by the dispatcher putting the kept stores
\* back.  A call whose fun raised evaluates out_tree() never, and a call
\* that returned unflattened with that structure.
C30_StoreWrittenBeforeRead ==
  /\ \A r \in StoreReads :
       /\ r.written /\ r.exc = "none"
       /\ r.tree = fun_out_tree(flat_call.in_tree)
       /\ r.ran \/ flat_call.hit
  /\ flat_call.exc = "FunError" => flat_call.reads = <<>>
  /\ flat_call.status = "returned" =>
       /\ flat_call.reads # <<>>
       /\ flat_call.out_tree = fun_out_tree(flat_call.in_tree)
  /\ flat_call.status = "raised" => flat_call.exc = "FunError"

\* C30 as stated: out_tree() is evaluated only after the flattened function
\* was run in the same call
C30_Original == \A r \in StoreReads : r.ran

\* a computation_maker call has returned after two evaluations of out_tree(),
\* both after the tracing that ran the flattened function
C30_Witness ==
  /\ flat_call.op = "computation_maker" /\ flat_call.status = "returned"
  /\ Len(flat_call.reads) = 2 /\ flat_call.ran
  /\ flat_call.in_tree.args # <<>>

\* a pmap call has returned after the deferred out_axes thunk and
\* tree_unflatten both evaluated out_tree()
C30_WitnessThunk ==
  /\ flat_call.op = "f_pmapped" /\ flat_call.status = "returned"
  /\ Len(flat_call.reads) = 2 /\ flat_call.reads[1].at = "out_axes_thunk"

\* a jit call has returned whose xla_call did not run the flattened function
C30_WitnessHit ==
  /\ flat_call.op \in {"f_jitted", "cache_miss"} /\ flat_call.status = "returned"
  /\ flat_call.hit /\ ~flat_call.ran /\ nflat = 2

\* a call whose fun raised has ended without an evaluation of out_tree()
C30_WitnessRaised ==
  /\ flat_call.status = "raised" /\ flat_call.exc = "FunError"
  /\ flat_call.op = "batched_fun"

====
